---- MODULE Spec2Model ----
(***************************************************************************)
(* Double-entry ledger and approval workflow of finance-ledger-service.    *)
(*                                                                         *)
(* The persistence layer is a document store (Mongoose).  A request        *)
(* handler works on a private in-memory copy of a stored document          *)
(* (findById), assigns fields on the copy and calls save(), which writes   *)
(* the paths whose value changed on the copy back to the stored document.  *)
(* Timestamps (createdAt / updatedAt) are not modelled.                    *)
(***************************************************************************)
EXTENDS Integers, Sequences, FiniteSets, TLC

(* ----------------------------- bounds ---------------------------------- *)
MaxTx == 1          \* stored transactions in the approval workflow
MaxAmount == 2      \* largest amount offered as an input
MaxBalance == 2     \* |balance| explored
NumTxIds == 2       \* distinct transactionId strings a creation can draw

(* ----------------------------- values ---------------------------------- *)
NULL == "null"      \* undefined / null / absent path

AccountTypes == {"asset", "liability", "equity", "revenue", "expense"}
TransactionTypes == {"credit", "debit", "refund", "purchase", "transfer"}
RefTypes == {"employee", "branch", "vendor"}
Statuses == {"pending", "approved", "rejected"}

AccountIds == {"A1", "A2"}          \* accounts of the chart of accounts
UnknownAccountId == "A9"            \* an id no stored account has
EmployeeIds == {"E1", "E2", "E3"}
Approvers == {"E2", "E3"}           \* approverId arguments offered
Workers == {"w1", "w2"}             \* concurrent request handlers
Reasons == {"r1", "r2"}
TxIdPool == 1..NumTxIds

VARIABLES
  accounts,   \* stored Account documents: AccountIds -> [accountType, balance]
  txs,        \* stored Transaction documents, txs[i] has _id = i
  txDoc,      \* per worker: the Transaction document it holds in memory
  acctDoc,    \* per worker: the Account document it holds in memory
  result,     \* per worker: outcome of its last call ("ok" or an error class)
  posted,     \* per account: sum of the signed deltas of completed postings
  call,       \* arguments of a call of a pure permission predicate
  ret         \* [done, value]: what that call returned

vars == <<accounts, txs, txDoc, acctDoc, result, posted, call, ret>>

(* --------------------------- documents --------------------------------- *)
NoMetadata == [rejectionReason |-> NULL]

\* transactionId strings: `${prefix}-${timestamp}-${random}`; n stands for the
\* timestamp and random part.
TxId(prefix, n) == [prefix |-> prefix, n |-> n]
NoTxId == TxId(NULL, 0)
NoSide == [accountType |-> NULL, accountId |-> NULL]
NoRef == [refType |-> NULL, refId |-> NULL]

\* An in-memory slot holding no document (_id = 0).
NoTxDoc ==
  [_id |-> 0, transactionId |-> NoTxId, amount |-> 0, type |-> NULL,
   debitAccount |-> NoSide, creditAccount |-> NoSide, reference |-> NoRef,
   description |-> NULL, status |-> NULL, approvedBy |-> NULL,
   linkedTransaction |-> 0, metadata |-> NoMetadata]

NoAcctDoc == [_id |-> NULL, accountType |-> NULL, balance |-> 0]

\* { accountType, accountId } of a stored account; an employee reference.
Side(a) == [accountType |-> accounts[a].accountType, accountId |-> a]
Ref(e) == [refType |-> "employee", refId |-> e]

\* Input of `new Transaction(data)`: the paths a caller can supply.
TxData(tid, n, ty, d, c, ref, desc, linked) ==
  [transactionId |-> tid, amount |-> n, type |-> ty,
   debitAccount |-> d, creditAccount |-> c, reference |-> ref,
   description |-> desc, linkedTransaction |-> linked]

\* new Transaction(data): schema defaults fill status; _id is fresh.
NewTransaction(id, data) ==
  [_id |-> id, transactionId |-> data.transactionId, amount |-> data.amount,
   type |-> data.type, debitAccount |-> data.debitAccount,
   creditAccount |-> data.creditAccount, reference |-> data.reference,
   description |-> data.description, status |-> "pending",
   approvedBy |-> NULL, linkedTransaction |-> data.linkedTransaction,
   metadata |-> NoMetadata]

\* Schema validators run by save(): required paths, min and enum.
ValidTransaction(doc) ==
  /\ doc.transactionId # NoTxId
  /\ doc.amount >= 0
  /\ doc.type \in TransactionTypes
  /\ doc.debitAccount.accountType # NULL
  /\ doc.debitAccount.accountId # NULL
  /\ doc.creditAccount.accountType # NULL
  /\ doc.creditAccount.accountId # NULL
  /\ doc.reference.refType \in RefTypes
  /\ doc.reference.refId # NULL
  /\ doc.status \in Statuses

\* Unique index on transactionId.
DuplicateTransactionId(stored, doc) ==
  \E i \in 1..Len(stored) : stored[i].transactionId = doc.transactionId

\* save() of a loaded document: only the paths modified on the in-memory
\* copy (old -> new) are written to the stored document.
SaveModified(stored, old, new) ==
  [f \in DOMAIN stored |-> IF old[f] # new[f] THEN new[f] ELSE stored[f]]

(* ----------------------------- Init ------------------------------------ *)
\* No transaction stored, no document loaded, nothing posted.
Idle ==
  /\ txs = <<>>
  /\ txDoc = [w \in Workers |-> NoTxDoc]
  /\ acctDoc = [w \in Workers |-> NoAcctDoc]
  /\ result = [w \in Workers |-> "none"]
  /\ posted = [a \in AccountIds |-> 0]

NoCall ==
  /\ call = [fn |-> "none"]
  /\ ret = [done |-> FALSE, value |-> FALSE]

\* Chart of accounts: a new account has the schema default balance 0.
NewAccount(a, accountType) ==
  [_id |-> a, accountType |-> accountType, balance |-> 0]

Init ==
  /\ accounts = [a \in AccountIds |->
                   NewAccount(a, IF a = "A1" THEN "asset" ELSE "liability")]
  /\ Idle
  /\ NoCall

(* ------------------------ Transaction model ---------------------------- *)
\* new Transaction(data).save(): validate, check the unique index, insert.
SaveTransaction(w, data) ==
  /\ LET doc == NewTransaction(Len(txs) + 1, data) IN
       IF ValidTransaction(doc) /\ ~DuplicateTransactionId(txs, doc)
       THEN /\ txs' = Append(txs, doc)
            /\ txDoc' = [txDoc EXCEPT ![w] = doc]
            /\ result' = [result EXCEPT ![w] = "ok"]
       ELSE /\ result' = [result EXCEPT ![w] = "MongooseError"]
            /\ UNCHANGED <<txs, txDoc>>
  /\ UNCHANGED <<accounts, acctDoc, posted, call, ret>>

\* Transaction.findById(id): a private copy of the stored document.
LoadTransaction(w, id) ==
  /\ id \in 1..Len(txs)
  /\ txDoc' = [txDoc EXCEPT ![w] = txs[id]]
  /\ result' = [result EXCEPT ![w] = "ok"]
  /\ UNCHANGED <<accounts, txs, acctDoc, posted, call, ret>>

\* transactionSchema.methods.approve
approve(w, approverId) ==
  /\ txDoc[w]._id # 0
  /\ LET doc == txDoc[w]
         new == [doc EXCEPT !.status = "approved", !.approvedBy = approverId]
     IN /\ txDoc' = [txDoc EXCEPT ![w] = new]
        /\ txs' = [txs EXCEPT ![doc._id] = SaveModified(@, doc, new)]
        /\ result' = [result EXCEPT ![w] = "ok"]
  /\ UNCHANGED <<accounts, acctDoc, posted, call, ret>>

\* Variant of reject that also posts the legs to the two accounts.
reject_Posting(w, approverId, reason) ==
  /\ txDoc[w]._id # 0
  /\ LET doc == txDoc[w]
         new == [doc EXCEPT !.status = "rejected", !.approvedBy = approverId,
                            !.metadata = [@ EXCEPT !.rejectionReason = reason]]
         d == doc.debitAccount.accountId
     IN /\ txDoc' = [txDoc EXCEPT ![w] = new]
        /\ txs' = [txs EXCEPT ![doc._id] = SaveModified(@, doc, new)]
        /\ accounts' = [accounts EXCEPT ![d].balance = @ + doc.amount]
        /\ result' = [result EXCEPT ![w] = "ok"]
  /\ UNCHANGED <<acctDoc, posted, call, ret>>

\* transactionSchema.methods.reject
reject(w, approverId, reason) ==
  /\ txDoc[w]._id # 0
  /\ LET doc == txDoc[w]
         new == [doc EXCEPT !.status = "rejected", !.approvedBy = approverId,
                            !.metadata = [@ EXCEPT !.rejectionReason = reason]]
     IN /\ txDoc' = [txDoc EXCEPT ![w] = new]
        /\ txs' = [txs EXCEPT ![doc._id] = SaveModified(@, doc, new)]
        /\ result' = [result EXCEPT ![w] = "ok"]
  /\ UNCHANGED <<accounts, acctDoc, posted, call, ret>>

(* --------------------- approval workflow: Spec ------------------------- *)
\* Well-formed creation requests of the approval workflow.
DecisionInputs ==
  {TxData(TxId("TX", tid), n, "debit", Side("A1"), Side("A2"), Ref("E1"),
          "d", 0) :
     tid \in TxIdPool, n \in {1, MaxAmount}}

Next ==
  \/ /\ Len(txs) < MaxTx
     /\ \E w \in Workers, data \in DecisionInputs : SaveTransaction(w, data)
  \/ \E w \in Workers, id \in 1..MaxTx : LoadTransaction(w, id)
  \/ \E w \in Workers, a \in Approvers : approve(w, a)
  \/ \E w \in Workers, a \in Approvers, r \in Reasons : reject(w, a, r)

Spec == Init /\ [][Next]_vars

(* -------------------------- Account model ------------------------------ *)
\* Variant of BalanceDelta that ignores the account type.
BalanceDelta_IgnoreType(accountType, amount, operation) ==
  IF operation = "debit" THEN amount
  ELSE IF operation = "credit" THEN 0 - amount ELSE 0

\* Signed effect of updateBalance on `this.balance`.
BalanceDelta(accountType, amount, operation) ==
  IF operation = "debit"
  THEN IF accountType \in {"asset", "expense"} THEN amount ELSE 0 - amount
  ELSE IF operation = "credit"
       THEN IF accountType \in {"asset", "expense"} THEN 0 - amount ELSE amount
       ELSE 0

\* The assignments updateBalance makes on the in-memory Account document.
updateBalanceDoc(doc, amount, operation) ==
  [doc EXCEPT !.balance = @ + BalanceDelta(doc.accountType, amount, operation)]

\* Account.findById(id): a private copy of the stored document.
LoadAccount(w, a) ==
  /\ acctDoc' = [acctDoc EXCEPT ![w] = accounts[a]]
  /\ result' = [result EXCEPT ![w] = "ok"]
  /\ UNCHANGED <<accounts, txs, txDoc, posted, call, ret>>

\* accountSchema.methods.updateBalance: assign on the copy, then save().
updateBalance(w, amount, operation) ==
  /\ acctDoc[w]._id # NULL
  /\ LET doc == acctDoc[w]
         new == updateBalanceDoc(doc, amount, operation)
         a == doc._id
         delta == BalanceDelta(doc.accountType, amount, operation)
     IN /\ new.balance \in (0 - MaxBalance)..MaxBalance
        /\ posted[a] + delta \in (0 - MaxBalance)..MaxBalance
        /\ acctDoc' = [acctDoc EXCEPT ![w] = new]
        /\ accounts' = [accounts EXCEPT ![a] = SaveModified(@, doc, new)]
        /\ posted' = [posted EXCEPT ![a] = @ + delta]
        /\ result' = [result EXCEPT ![w] = "ok"]
  /\ UNCHANGED <<txs, txDoc, call, ret>>

(* ----------------- concurrent postings: SpecPost ----------------------- *)
PostAmounts == (0 - 1)..MaxAmount
PostOperations == {"debit", "credit", "transfer"}

NextPost ==
  \/ \E w \in Workers, a \in AccountIds : LoadAccount(w, a)
  \/ \E w \in Workers, n \in PostAmounts, op \in PostOperations :
       updateBalance(w, n, op)

SpecPost == Init /\ [][NextPost]_vars

(* ------------- postings to every account type: SpecBalance ------------- *)
InitBalance ==
  /\ \E t1 \in AccountTypes, t2 \in AccountTypes :
       accounts = [a \in AccountIds |->
                     NewAccount(a, IF a = "A1" THEN t1 ELSE t2)]
  /\ Idle
  /\ NoCall

\* One handler at a time: load an account, post to it.
NextBalance ==
  \/ \E a \in AccountIds : LoadAccount("w1", a)
  \/ \E n \in PostAmounts, op \in PostOperations : updateBalance("w1", n, op)

SpecBalance == InitBalance /\ [][NextBalance]_vars
(* ----------------------- transaction creation -------------------------- *)
\* Variant of createDoubleEntry that posts the partner's amount on creation.
createDoubleEntry_Posting(w, partnerTransaction, n) ==
  /\ txDoc[w]._id # 0
  /\ LET this == txDoc[w]
         partner == NewTransaction(Len(txs) + 1,
                      [partnerTransaction EXCEPT
                         !.linkedTransaction = this._id,
                         !.transactionId = TxId("TX", n)])
         linked == [this EXCEPT !.linkedTransaction = partner._id]
     IN IF ValidTransaction(partner) /\ ~DuplicateTransactionId(txs, partner)
        THEN /\ txs' = [Append(txs, partner) EXCEPT
                          ![this._id] = SaveModified(@, this, linked)]
             /\ txDoc' = [txDoc EXCEPT ![w] = linked]
             /\ accounts' = [accounts EXCEPT
                               !["A1"].balance = @ + partner.amount]
             /\ result' = [result EXCEPT ![w] = "ok"]
        ELSE /\ result' = [result EXCEPT ![w] = "MongooseError"]
             /\ UNCHANGED <<txs, txDoc, accounts>>
  /\ UNCHANGED <<acctDoc, posted, call, ret>>

\* transactionSchema.methods.createDoubleEntry, called on the document the
\* worker holds; n is the timestamp-and-random suffix drawn for the partner.
createDoubleEntry(w, partnerTransaction, n) ==
  /\ txDoc[w]._id # 0
  /\ LET this == txDoc[w]
         partner == NewTransaction(Len(txs) + 1,
                      [partnerTransaction EXCEPT
                         !.linkedTransaction = this._id,
                         !.transactionId = TxId("TX", n)])
         linked == [this EXCEPT !.linkedTransaction = partner._id]
     IN IF ValidTransaction(partner) /\ ~DuplicateTransactionId(txs, partner)
        THEN \* partner.save(); this.linkedTransaction = partner._id; this.save()
             /\ txs' = [Append(txs, partner) EXCEPT
                          ![this._id] = SaveModified(@, this, linked)]
             /\ txDoc' = [txDoc EXCEPT ![w] = linked]
             /\ result' = [result EXCEPT ![w] = "ok"]
        ELSE \* partner.save() rejects; the error propagates
             /\ result' = [result EXCEPT ![w] = "MongooseError"]
             /\ UNCHANGED <<txs, txDoc>>
  /\ UNCHANGED <<accounts, acctDoc, posted, call, ret>>

\* The two documents createDoubleEntryTransaction builds (lines 49-72).
DebitLeg(id, debitData, creditData, amount, description, n) ==
  NewTransaction(id, TxData(TxId("TX-DEBIT", n), amount, "debit", debitData,
                            creditData, NoRef, description, id + 1))

CreditLeg(id, debitData, creditData, amount, description, n) ==
  NewTransaction(id + 1, TxData(TxId("TX-CREDIT", n), amount, "credit",
                                debitData, creditData, NoRef, description, id))

\* utils/doubleEntry createDoubleEntryTransaction; nd and nc are the
\* timestamp-and-random suffixes drawn for the two legs.
createDoubleEntryTransaction(w, debitData, creditData, amount, description, nd, nc) ==
  /\ LET id == Len(txs) + 1
         debitTransaction ==
           DebitLeg(id, debitData, creditData, amount, description, nd)
         creditTransaction ==
           CreditLeg(id, debitData, creditData, amount, description, nc)
     IN IF debitData = NoSide \/ creditData = NoSide
        THEN /\ result' = [result EXCEPT ![w] = "ValidationError"]
             /\ UNCHANGED <<txs, txDoc>>
        ELSE IF amount <= 0
        THEN /\ result' = [result EXCEPT ![w] = "ValidationError"]
             /\ UNCHANGED <<txs, txDoc>>
        ELSE IF debitData.accountId \notin DOMAIN accounts
                \/ creditData.accountId \notin DOMAIN accounts
        THEN \* thrown inside try, rethrown by catch as DatabaseError
             /\ result' = [result EXCEPT ![w] = "DatabaseError"]
             /\ UNCHANGED <<txs, txDoc>>
        ELSE IF ~ValidTransaction(debitTransaction)
                \/ DuplicateTransactionId(txs, debitTransaction)
        THEN \* debitTransaction.save() rejects
             /\ result' = [result EXCEPT ![w] = "DatabaseError"]
             /\ UNCHANGED <<txs, txDoc>>
        ELSE IF ~ValidTransaction(creditTransaction)
                \/ DuplicateTransactionId(txs, creditTransaction)
        THEN \* creditTransaction.save() rejects, the debit leg stays stored
             /\ txs' = Append(txs, debitTransaction)
             /\ result' = [result EXCEPT ![w] = "DatabaseError"]
             /\ UNCHANGED txDoc
        ELSE /\ txs' = Append(Append(txs, debitTransaction), creditTransaction)
             /\ txDoc' = [txDoc EXCEPT ![w] = debitTransaction]
             /\ result' = [result EXCEPT ![w] = "ok"]
  /\ UNCHANGED <<accounts, acctDoc, posted, call, ret>>

(* --------------------- creation paths: SpecCreate ---------------------- *)
MaxCreated == 2     \* stored transactions in the creation paths

\* debitData / creditData arguments: a stored account, a stored account
\* without its accountType, an unknown account, null.
SideInputs ==
  {Side(a) : a \in AccountIds}
    \cup {[accountType |-> NULL, accountId |-> "A1"],
          [accountType |-> "asset", accountId |-> UnknownAccountId],
          NoSide}

Amounts == (0 - 1)..MaxAmount

\* Data given to new Transaction(): every path present (the amount may be 0
\* or negative, the credit side may name an unknown account) ...
FullInputs ==
  {TxData(TxId("TX", k), n, "debit", Side("A1"), Side("A2"), Ref("E1"), "d", 0) :
     k \in TxIdPool, n \in {0 - 1, 0, 1, MaxAmount}}
    \cup {TxData(TxId("TX", 1), 1, "debit", Side("A1"),
                 [accountType |-> "asset", accountId |-> UnknownAccountId],
                 Ref("E1"), "d", 0)}

\* ... or one required path missing or outside its enum.
CreateInputs ==
  FullInputs \cup
    {TxData(NoTxId, 1, "debit", Side("A1"), Side("A2"), Ref("E1"), "d", 0),
     TxData(TxId("TX", 1), 1, "bogus", Side("A1"), Side("A2"), Ref("E1"), "d", 0),
     TxData(TxId("TX", 1), 1, "debit", NoSide, Side("A2"), Ref("E1"), "d", 0),
     TxData(TxId("TX", 1), 1, "debit", Side("A1"), Side("A2"), NoRef, "d", 0)}

NextCreate ==
  \/ /\ Len(txs) < MaxCreated
     /\ \E w \in Workers, data \in CreateInputs : SaveTransaction(w, data)
  \/ \E w \in Workers, id \in 1..MaxCreated : LoadTransaction(w, id)
  \/ /\ Len(txs) < MaxCreated
     /\ \E w \in Workers, data \in CreateInputs, n \in TxIdPool :
          createDoubleEntry(w, data, n)
  \/ /\ Len(txs) + 1 < MaxCreated
     /\ \E w \in Workers, d \in SideInputs, c \in SideInputs, n \in Amounts,
           nd \in TxIdPool, nc \in TxIdPool :
          createDoubleEntryTransaction(w, d, c, n, "d", nd, nc)

SpecCreate == Init /\ [][NextCreate]_vars

(* -------------------- permission predicates ---------------------------- *)
Roles == {"Admin", "BranchManager", "Employee", "Vendor"}

\* A user object of the request context, or null.
User(designation, employeeId) ==
  [exists |-> TRUE, designation |-> designation, employeeId |-> employeeId]
NullUser == [exists |-> FALSE, designation |-> NULL, employeeId |-> NULL]

\* An Employee document (its manager path may be unset), or null.
Employee(manager) == [exists |-> TRUE, manager |-> manager]
NullEmployee == [exists |-> FALSE, manager |-> NULL]

\* Variant of isManager that accepts any principal once the employee has a
\* manager.
isManager_AnyManager(user, employee) ==
  IF ~user.exists \/ ~employee.exists THEN FALSE
  ELSE IF user.designation = "Admin" THEN TRUE
  ELSE employee.manager # NULL

\* Variant of isManager without the Admin bypass.
isManager_NoAdminBypass(user, employee) ==
  IF ~user.exists \/ ~employee.exists THEN FALSE
  ELSE employee.manager # NULL /\ employee.manager = user.employeeId

\* handles/permissions isManager
isManager(user, employee) ==
  IF ~user.exists \/ ~employee.exists THEN FALSE
  ELSE IF user.designation = "Admin" THEN TRUE
  ELSE IF employee.manager # NULL /\ employee.manager = user.employeeId
       THEN TRUE
       ELSE FALSE

(* ------------------- authority check: SpecManager ---------------------- *)
UserInputs ==
  {User(d, e) : d \in Roles \cup {NULL}, e \in EmployeeIds \cup {NULL}}
    \cup {NullUser}
EmployeeInputs ==
  {Employee(m) : m \in EmployeeIds \cup {NULL}} \cup {NullEmployee}

InitManager ==
  /\ accounts = [a \in AccountIds |->
                   NewAccount(a, IF a = "A1" THEN "asset" ELSE "liability")]
  /\ Idle
  /\ \E u \in UserInputs, e \in EmployeeInputs :
       call = [fn |-> "isManager", user |-> u, employee |-> e]
  /\ ret = [done |-> FALSE, value |-> FALSE]

CallIsManager ==
  /\ call.fn = "isManager"
  /\ ~ret.done
  /\ ret' = [done |-> TRUE, value |-> isManager(call.user, call.employee)]
  /\ UNCHANGED <<accounts, txs, txDoc, acctDoc, result, posted, call>>

NextManager == CallIsManager

SpecManager == InitManager /\ [][NextManager]_vars

(* ----------------------- account validation schemas -------------------- *)
\* A request-body key: absent, or present with a value. Strings are
\* sequences of characters so that trim() can be computed.
Absent(v) == [present |-> FALSE, value |-> v]
Present(v) == [present |-> TRUE, value |-> v]

\* String.prototype.trim as Joi's string().trim() applies it.
RECURSIVE TrimStart(_)
TrimStart(s) ==
  IF s # <<>> /\ Head(s) = " " THEN TrimStart(Tail(s)) ELSE s

RECURSIVE TrimEnd(_)
TrimEnd(s) ==
  IF s # <<>> /\ s[Len(s)] = " " THEN TrimEnd(SubSeq(s, 1, Len(s) - 1)) ELSE s

Trim(s) == TrimEnd(TrimStart(s))

\* Joi.string().trim().min(1).max(max), required() or optional(): TRUE when
\* the key is rejected.
JoiStringError(key, required, max) ==
  IF ~key.present THEN required
  ELSE Len(Trim(key.value)) < 1 \/ Len(Trim(key.value)) > max

\* A key the schema object does not declare: validateInput passes
\* stripUnknown, so the key is removed from the value and is no error.
StripUnknown(key, v) == Absent(v)

\* The value of a declared string key after conversion.
Trimmed(key) == [key EXCEPT !.value = Trim(@)]

\* createAccountSchema.validate(input, {abortEarly: false, stripUnknown:
\* true}): the error flag and the converted value (strings trimmed, balance
\* defaulting to 0 when the key is absent).
createAccountSchema(input) ==
  [error |-> \/ JoiStringError(input.accountCode, TRUE, 50)
             \/ JoiStringError(input.accountName, TRUE, 255)
             \/ ~input.accountType.present
             \/ input.accountType.value \notin AccountTypes,
   value |-> [accountCode |-> Trimmed(input.accountCode),
              accountName |-> Trimmed(input.accountName),
              accountType |-> input.accountType,
              balance |-> IF input.balance.present
                          THEN input.balance ELSE Present(0)]]

\* updateAccountSchema.validate(input, same options): accountCode and
\* accountType are not keys of this schema; balance is an optional number.
updateAccountSchema(input) ==
  [error |-> JoiStringError(input.accountName, FALSE, 255),
   value |-> [accountCode |-> StripUnknown(input.accountCode, <<>>),
              accountName |-> Trimmed(input.accountName),
              accountType |-> StripUnknown(input.accountType, NULL),
              balance |-> input.balance]]

\* handles/validation validateInput(data, schema): the validated value, or
\* ValidationError.
validateInput(data, schema) ==
  LET validated == IF schema = "createAccountSchema"
                   THEN createAccountSchema(data)
                   ELSE updateAccountSchema(data)
  IN IF validated.error
     THEN [error |-> "ValidationError", value |-> data]
     ELSE [error |-> "none", value |-> validated.value]

\* Request bodies: each key absent or drawn from a few values.
StringInputs ==
  {Absent(<<>>), Present(<<>>), Present(<<" ">>), Present(<<" ", "C", " ">>)}

TypeInputs == {Absent(NULL), Present("asset"), Present("revenue"), Present("cash")}

BalanceInputs == {Absent(0)} \cup {Present(n) : n \in -1..MaxBalance}

AccountInputs ==
  [accountCode : StringInputs, accountName : StringInputs,
   accountType : TypeInputs, balance : BalanceInputs]

InitAccountSchema ==
  /\ accounts = [a \in AccountIds |->
                   NewAccount(a, IF a = "A1" THEN "asset" ELSE "liability")]
  /\ Idle
  /\ \E fn \in {"createAccountSchema", "updateAccountSchema"},
        input \in AccountInputs : call = [fn |-> fn, input |-> input]
  /\ ret = [done |-> FALSE, value |-> FALSE]

ValidateCreateAccount ==
  /\ call.fn = "createAccountSchema"
  /\ ~ret.done
  /\ ret' = [done |-> TRUE, value |-> validateInput(call.input, call.fn)]
  /\ UNCHANGED <<accounts, txs, txDoc, acctDoc, result, posted, call>>

ValidateUpdateAccount ==
  /\ call.fn = "updateAccountSchema"
  /\ ~ret.done
  /\ ret' = [done |-> TRUE, value |-> validateInput(call.input, call.fn)]
  /\ UNCHANGED <<accounts, txs, txDoc, acctDoc, result, posted, call>>

NextAccountSchema == ValidateCreateAccount \/ ValidateUpdateAccount

SpecAccountSchema == InitAccountSchema /\ [][NextAccountSchema]_vars

(* --------------------------- reconciliation ---------------------------- *)
\* Transaction.find({$or: [debitAccount.accountId, creditAccount.accountId]})
TransactionsOf(accountId) ==
  SelectSeq(txs, LAMBDA tx : \/ tx.debitAccount.accountId = accountId
                             \/ tx.creditAccount.accountId = accountId)

\* The loop of reconcileAccounts over the transactions found: + amount where
\* the account is the debit side, - amount where it is the credit side.
RECURSIVE calculatedBalance(_, _)
calculatedBalance(transactions, accountId) ==
  IF transactions = <<>> THEN 0
  ELSE LET tx == Head(transactions)
       IN (IF tx.debitAccount.accountId = accountId THEN tx.amount ELSE 0)
          - (IF tx.creditAccount.accountId = accountId THEN tx.amount ELSE 0)
          + calculatedBalance(Tail(transactions), accountId)

\* The entry pushed to results for one account.
ReconcileEntry(account, calculated) ==
  [accountId |-> account._id,
   recordedBalance |-> account.balance,
   calculatedBalance |-> calculated,
   difference |-> account.balance - calculated,
   reconciled |-> account.balance - calculated = 0]

\* What reconcileAccounts returns for the results collected.
ReconcileReport(results) ==
  [accounts |-> results,
   allReconciled |-> \A i \in 1..Len(results) : results[i].reconciled]

NoReconcile ==
  /\ call = [fn |-> "none", accountIds |-> <<>>, next |-> 1,
             account |-> NoAcctDoc]
  /\ ret = [done |-> FALSE, error |-> "none", value |-> ReconcileReport(<<>>)]

InitReconcile ==
  /\ accounts = [a \in AccountIds |->
                   NewAccount(a, IF a = "A1" THEN "asset" ELSE "liability")]
  /\ Idle
  /\ NoReconcile

\* reconcileAccounts(accountIds) is called.
reconcileAccounts(accountIds) ==
  /\ call.fn = "none"
  /\ call' = [fn |-> "reconcileAccounts", accountIds |-> accountIds,
              next |-> 1, account |-> NoAcctDoc]
  /\ UNCHANGED <<accounts, txs, txDoc, acctDoc, result, posted, ret>>

\* The position after the current account; the call returns after the last.
ReconcileAdvance(results) ==
  /\ call' = [call EXCEPT !.next = @ + 1, !.account = NoAcctDoc]
  /\ ret' = [done |-> call.next = Len(call.accountIds),
             error |-> "none",
             value |-> ReconcileReport(results)]

\* await Account.findById(accountId); a missing account is skipped.
reconcileFindAccount ==
  /\ call.fn = "reconcileAccounts"
  /\ ~ret.done
  /\ call.account = NoAcctDoc
  /\ LET accountId == call.accountIds[call.next]
     IN IF accountId \in DOMAIN accounts
        THEN /\ call' = [call EXCEPT !.account = accounts[accountId]]
             /\ UNCHANGED ret
        ELSE ReconcileAdvance(ret.value.accounts)
  /\ UNCHANGED <<accounts, txs, txDoc, acctDoc, result, posted>>

\* Variant of reconcileFindTransactions that repairs the stored balance.
reconcileFindTransactions_Repair ==
  /\ call.fn = "reconcileAccounts"
  /\ ~ret.done
  /\ call.account # NoAcctDoc
  /\ LET account == call.account
         calculated == calculatedBalance(TransactionsOf(account._id),
                                         account._id)
     IN /\ ReconcileAdvance(Append(ret.value.accounts,
                                   ReconcileEntry(account, calculated)))
        /\ accounts' = [accounts EXCEPT ![account._id].balance = calculated]
  /\ UNCHANGED <<txs, txDoc, acctDoc, result, posted>>

\* await Transaction.find(...), the sum, and results.push(...).
reconcileFindTransactions ==
  /\ call.fn = "reconcileAccounts"
  /\ ~ret.done
  /\ call.account # NoAcctDoc
  /\ LET account == call.account
         calculated == calculatedBalance(TransactionsOf(account._id),
                                         account._id)
     IN ReconcileAdvance(Append(ret.value.accounts,
                                ReconcileEntry(account, calculated)))
  /\ UNCHANGED <<accounts, txs, txDoc, acctDoc, result, posted>>

ReconcileInputs == {<<"A1">>, <<"A2", "A1">>, <<UnknownAccountId, "A2">>}

\* Transactions between A1 and A2, each saved under an identifier not yet
\* in use.
ReconcileTxInputs ==
  {TxData(TxId("TX", Len(txs) + 1), n, "debit", Side("A1"), Side("A2"),
          Ref("E1"), "d", 0) : n \in {1, MaxAmount}}

\* Transactions are created and decided by one handler, postings to A1 are
\* made by another, and one reconciliation runs alongside them.
NextReconcile ==
  \/ /\ Len(txs) < MaxTx
     /\ \E data \in ReconcileTxInputs : SaveTransaction("w1", data)
  \/ approve("w1", "E2")
  \/ reject("w1", "E2", "r1")
  \/ LoadAccount("w2", "A1")
  \/ \E op \in {"debit", "credit"} : updateBalance("w2", 1, op)
  \/ \E accountIds \in ReconcileInputs : reconcileAccounts(accountIds)
  \/ reconcileFindAccount
  \/ reconcileFindTransactions

SpecReconcile == InitReconcile /\ [][NextReconcile]_vars

(* ------------- reconciliation of newly created accounts ---------------- *)
\* Creation bodies that createAccountSchema accepts.
OpeningInputs ==
  {input \in AccountInputs :
     /\ input.accountCode = Present(<<" ", "C", " ">>)
     /\ input.accountName = Present(<<" ", "C", " ">>)
     /\ validateInput(input, "createAccountSchema").error = "none"}

\* new Account(value) for a validated creation body: the schema default 0
\* applies only when no balance is given.
CreateAccount(a, input) ==
  LET value == validateInput(input, "createAccountSchema").value
  IN [NewAccount(a, value.accountType.value) EXCEPT
        !.balance = value.balance.value]

InitOpening ==
  /\ \E i1 \in OpeningInputs, i2 \in OpeningInputs :
       accounts = [a \in AccountIds |->
                     CreateAccount(a, IF a = "A1" THEN i1 ELSE i2)]
  /\ Idle
  /\ NoReconcile

NextOpening ==
  \/ \E accountIds \in ReconcileInputs : reconcileAccounts(accountIds)
  \/ reconcileFindAccount
  \/ reconcileFindTransactions

SpecOpening == InitOpening /\ [][NextOpening]_vars

(* ------------------------- account creation ---------------------------- *)
MaxAccounts == 2    \* stored accounts in the account-creation paths

\* new Account(value): the document built from a validated creation body.
\* In this part of the model the accounts collection is the sequence of
\* stored documents and _id is the position.
NewAccountDoc(id, value) ==
  [_id |-> id,
   accountCode |-> value.accountCode.value,
   accountName |-> value.accountName.value,
   accountType |-> value.accountType.value,
   balance |-> value.balance.value]

\* Schema validation of an Account document on save().
ValidAccount(doc) ==
  /\ doc.accountCode # <<>>
  /\ doc.accountName # <<>>
  /\ doc.accountType \in AccountTypes

\* Unique index on accountCode.
DuplicateAccountCode(stored, doc) ==
  \E i \in 1..Len(stored) : stored[i].accountCode = doc.accountCode

\* Account creation: validateInput(input, createAccountSchema), then
\* new Account(value).save().
createAccount(w, input) ==
  /\ LET validated == validateInput(input, "createAccountSchema")
         doc == NewAccountDoc(Len(accounts) + 1, validated.value)
     IN IF validated.error # "none"
        THEN /\ result' = [result EXCEPT ![w] = "ValidationError"]
             /\ UNCHANGED accounts
        ELSE IF ValidAccount(doc) /\ ~DuplicateAccountCode(accounts, doc)
        THEN /\ accounts' = Append(accounts, doc)
             /\ result' = [result EXCEPT ![w] = "ok"]
        ELSE \* save() rejects: validation error or duplicate key
             /\ result' = [result EXCEPT ![w] = "MongooseError"]
             /\ UNCHANGED accounts
  /\ UNCHANGED <<txs, txDoc, acctDoc, posted, call, ret>>

\* Creation bodies: codes that are equal, equal after trim, different, blank.
ChartInputs ==
  [accountCode : {Present(<<"C">>), Present(<<" ", "C", " ">>),
                  Present(<<"D">>), Present(<<" ">>)},
   accountName : {Present(<<"C">>)},
   accountType : TypeInputs,
   balance : {Absent(0), Present(1)}]

InitChart ==
  /\ accounts = <<>>
  /\ Idle
  /\ NoCall

NextChart ==
  /\ Len(accounts) < MaxAccounts
  /\ \E w \in Workers, input \in ChartInputs : createAccount(w, input)

SpecChart == InitChart /\ [][NextChart]_vars

(* ------------------------ permission matrix ---------------------------- *)
\* constants/permissions PERMISSIONS (the values).
PERMISSIONS ==
  {"view_organization", "create_organization", "update_organization",
   "delete_organization",
   "view_branch", "create_branch", "update_branch", "delete_branch",
   "view_employee", "create_employee", "update_employee", "delete_employee",
   "view_vendor", "create_vendor", "update_vendor", "delete_vendor",
   "view_transaction", "create_transaction", "update_transaction",
   "approve_transaction", "reject_transaction",
   "view_reports", "view_all_reports"}

\* Variant of the matrix in which Vendor may also create vendors.
PERMISSION_MATRIX_VendorCreates ==
  [role \in Roles |->
     CASE role = "Admin" -> PERMISSIONS
       [] role = "BranchManager" ->
            {"view_organization", "view_branch", "update_branch",
             "view_employee", "create_employee", "update_employee",
             "view_vendor", "create_vendor", "update_vendor",
             "view_transaction", "approve_transaction",
             "reject_transaction", "view_reports"}
       [] role = "Employee" ->
            {"view_organization", "view_branch", "view_employee",
             "view_vendor", "view_transaction", "create_transaction",
             "update_transaction", "view_reports"}
       [] role = "Vendor" ->
            {"view_vendor", "create_vendor", "view_transaction",
             "view_reports"}]

\* constants/permissions PERMISSION_MATRIX: the own properties of the object.
PERMISSION_MATRIX ==
  [role \in Roles |->
     CASE role = "Admin" -> PERMISSIONS
       [] role = "BranchManager" ->
            {"view_organization", "view_branch", "update_branch",
             "view_employee", "create_employee", "update_employee",
             "view_vendor", "create_vendor", "update_vendor",
             "view_transaction", "approve_transaction",
             "reject_transaction", "view_reports"}
       [] role = "Employee" ->
            {"view_organization", "view_branch", "view_employee",
             "view_vendor", "view_transaction", "create_transaction",
             "update_transaction", "view_reports"}
       [] role = "Vendor" ->
            {"view_vendor", "view_transaction", "view_reports"}]

\* Property names every object literal inherits from Object.prototype:
\* PERMISSION_MATRIX[name] is then a function, not undefined.
ObjectPrototypeNames == {"constructor", "toString"}

\* A call that returned v, and a call that threw.
Returned(v) == [error |-> "none", value |-> v]
Thrown(e) == [error |-> e, value |-> FALSE]

\* hasPermission: PERMISSION_MATRIX[role]?.includes(permission) || false.
\* An own property is an array; an inherited one is defined but has no
\* includes method, so calling it throws; any other name is undefined.
hasPermission(role, permission) ==
  IF role \in DOMAIN PERMISSION_MATRIX
  THEN Returned(permission \in PERMISSION_MATRIX[role])
  ELSE IF role \in ObjectPrototypeNames
  THEN Thrown("TypeError")
  ELSE Returned(FALSE)

\* handles/permissions isAuthorized; "" and an absent designation are falsy.
isAuthorized(user, permission) ==
  IF ~user.exists \/ user.designation \in {NULL, ""}
  THEN Returned(FALSE)
  ELSE hasPermission(user.designation, permission)

\* Users: absent, without designation, with each role, with other strings.
DesignationInputs ==
  Roles \cup ObjectPrototypeNames \cup {NULL, "", "InvalidRole", "admin"}

AuthorizedUserInputs ==
  {User(d, e) : d \in DesignationInputs, e \in {NULL, "E1"}} \cup {NullUser}

PermissionInputs == PERMISSIONS \cup {NULL, "invalid_permission"}

InitAuthorized ==
  /\ accounts = [a \in AccountIds |->
                   NewAccount(a, IF a = "A1" THEN "asset" ELSE "liability")]
  /\ Idle
  /\ \E u \in AuthorizedUserInputs, p \in PermissionInputs :
       call = [fn |-> "isAuthorized", user |-> u, permission |-> p]
  /\ ret = [done |-> FALSE, value |-> Returned(FALSE)]

CallIsAuthorized ==
  /\ call.fn = "isAuthorized"
  /\ ~ret.done
  /\ ret' = [done |-> TRUE,
             value |-> isAuthorized(call.user, call.permission)]
  /\ UNCHANGED <<accounts, txs, txDoc, acctDoc, result, posted, call>>

NextAuthorized == CallIsAuthorized

SpecAuthorized == InitAuthorized /\ [][NextAuthorized]_vars

(* --------------------------- role hierarchy ---------------------------- *)
\* constants/roles ROLE_HIERARCHY, lowest first.
ROLE_HIERARCHY == <<"Vendor", "Employee", "BranchManager", "Admin">>

\* Array.prototype.indexOf: the 0-based position, or -1.
IndexOf(array, x) ==
  IF \E i \in 1..Len(array) : array[i] = x
  THEN (CHOOSE i \in 1..Len(array) :
          array[i] = x /\ \A j \in 1..(i - 1) : array[j] # x) - 1
  ELSE 0 - 1

\* Variant of isRoleHigher that compares with >=.
isRoleHigher_OrEqual(role1, role2) ==
  LET index1 == IndexOf(ROLE_HIERARCHY, role1)
      index2 == IndexOf(ROLE_HIERARCHY, role2)
  IN IF index1 = 0 - 1 \/ index2 = 0 - 1 THEN FALSE ELSE index1 >= index2

\* constants/roles isRoleHigher
isRoleHigher(role1, role2) ==
  LET index1 == IndexOf(ROLE_HIERARCHY, role1)
      index2 == IndexOf(ROLE_HIERARCHY, role2)
  IN IF index1 = 0 - 1 \/ index2 = 0 - 1 THEN FALSE ELSE index1 > index2

RoleInputs == Roles \cup {NULL, "", "InvalidRole", "admin"}

InitRoles ==
  /\ accounts = [a \in AccountIds |->
                   NewAccount(a, IF a = "A1" THEN "asset" ELSE "liability")]
  /\ Idle
  /\ \E r1 \in RoleInputs, r2 \in RoleInputs :
       call = [fn |-> "isRoleHigher", role1 |-> r1, role2 |-> r2]
  /\ ret = [done |-> FALSE, value |-> FALSE]

CallIsRoleHigher ==
  /\ call.fn = "isRoleHigher"
  /\ ~ret.done
  /\ ret' = [done |-> TRUE, value |-> isRoleHigher(call.role1, call.role2)]
  /\ UNCHANGED <<accounts, txs, txDoc, acctDoc, result, posted, call>>

NextRoles == CallIsRoleHigher

SpecRoles == InitRoles /\ [][NextRoles]_vars

(* ------------------------------ ownership ------------------------------ *)
\* A user of the request context and a resource, each with the two
\* identifying fields (NULL: absent), or null.
OwnerUser(userId, employeeId) ==
  [exists |-> TRUE, userId |-> userId, employeeId |-> employeeId]
NullOwnerUser == [exists |-> FALSE, userId |-> NULL, employeeId |-> NULL]

Resource(userId, employeeId) ==
  [exists |-> TRUE, userId |-> userId, employeeId |-> employeeId]
NullResource == [exists |-> FALSE, userId |-> NULL, employeeId |-> NULL]

\* JavaScript truthiness of an id: absent and "" are falsy.
Truthy(id) == id \notin {NULL, ""}

\* Variant of isOwner that compares the ids without testing that the
\* resource carries them.
isOwner_AbsentMatches(user, resource) ==
  IF ~user.exists \/ ~resource.exists THEN FALSE
  ELSE IF resource.userId = user.userId THEN TRUE
  ELSE IF resource.employeeId = user.employeeId THEN TRUE
  ELSE FALSE

\* handles/permissions isOwner
isOwner(user, resource) ==
  IF ~user.exists \/ ~resource.exists THEN FALSE
  ELSE IF Truthy(resource.userId) /\ resource.userId = user.userId THEN TRUE
  ELSE IF Truthy(resource.employeeId)
            /\ resource.employeeId = user.employeeId THEN TRUE
  ELSE FALSE

UserIdInputs == {NULL, "", "U1", "U2"}
EmployeeIdInputs == {NULL, "", "E1", "E2"}

OwnerUserInputs ==
  {OwnerUser(u, e) : u \in UserIdInputs, e \in EmployeeIdInputs}
    \cup {NullOwnerUser}
ResourceInputs ==
  {Resource(u, e) : u \in UserIdInputs, e \in EmployeeIdInputs}
    \cup {NullResource}

InitOwner ==
  /\ accounts = [a \in AccountIds |->
                   NewAccount(a, IF a = "A1" THEN "asset" ELSE "liability")]
  /\ Idle
  /\ \E u \in OwnerUserInputs, r \in ResourceInputs :
       call = [fn |-> "isOwner", user |-> u, resource |-> r]
  /\ ret = [done |-> FALSE, value |-> FALSE]

CallIsOwner ==
  /\ call.fn = "isOwner"
  /\ ~ret.done
  /\ ret' = [done |-> TRUE, value |-> isOwner(call.user, call.resource)]
  /\ UNCHANGED <<accounts, txs, txDoc, acctDoc, result, posted, call>>

NextOwner == CallIsOwner

SpecOwner == InitOwner /\ [][NextOwner]_vars

(* ----------------------- management hierarchy -------------------------- *)
\* Directories of Employee documents: each employee's manager path.
Directories == [EmployeeIds -> EmployeeIds \cup {NULL}]

\* isManager is called with the Employee document of employeeId in the
\* directory.
InitHierarchy ==
  /\ accounts = [a \in AccountIds |->
                   NewAccount(a, IF a = "A1" THEN "asset" ELSE "liability")]
  /\ Idle
  /\ \E d \in Directories, e \in EmployeeIds,
        role \in Roles, principal \in EmployeeIds :
       call = [fn |-> "isManager", user |-> User(role, principal),
               employee |-> Employee(d[e]), employeeId |-> e,
               directory |-> d]
  /\ ret = [done |-> FALSE, value |-> FALSE]

SpecHierarchy == InitHierarchy /\ [][NextManager]_vars

(* ------------------------- authorization gates ------------------------- *)
\* context.user of a request, or null.
ContextUser(isAuthenticated, designation, userId, employeeId) ==
  [exists |-> TRUE, isAuthenticated |-> isAuthenticated,
   designation |-> designation, userId |-> userId, employeeId |-> employeeId]
NullContextUser ==
  [exists |-> FALSE, isAuthenticated |-> FALSE, designation |-> NULL,
   userId |-> NULL, employeeId |-> NULL]

\* What getResource(args.id) resolves to: a document, or null.
GateResource(userId, employeeId, manager) ==
  [exists |-> TRUE, userId |-> userId, employeeId |-> employeeId,
   manager |-> manager]
NullGateResource ==
  [exists |-> FALSE, userId |-> NULL, employeeId |-> NULL, manager |-> NULL]

Gates == {"withPermission", "withOwnershipCheck", "withManagementCheck"}

\* Resolvers wrapped by one to three different gates, outermost first.
GateChains ==
  {chain \in UNION {[1..n -> Gates] : n \in 1..3} :
     \A i, j \in 1..Len(chain) : chain[i] = chain[j] => i = j}

ContextUserInputs ==
  {ContextUser(a, d, "U1", "E2") :
     a \in BOOLEAN, d \in {"Admin", "Employee", "Vendor"}}
    \cup {NullContextUser}

GateResourceInputs ==
  {NullGateResource, GateResource("U1", NULL, "E2"),
   GateResource("U2", NULL, "E2"), GateResource("U1", NULL, "E3"),
   GateResource(NULL, NULL, NULL)}

InitGates ==
  /\ accounts = [a \in AccountIds |->
                   NewAccount(a, IF a = "A1" THEN "asset" ELSE "liability")]
  /\ Idle
  /\ \E chain \in GateChains, user \in ContextUserInputs,
        permission \in {"view_transaction", "approve_transaction"},
        resource \in GateResourceInputs :
       call = [fn |-> "wrapped", chain |-> chain, next |-> 1, user |-> user,
               permission |-> permission, resource |-> resource]
  /\ ret = [done |-> FALSE, error |-> "none", resolverCalled |-> FALSE]

\* The gate at the current nesting level is entered.
AtGate(gate) ==
  /\ call.fn = "wrapped"
  /\ ~ret.done
  /\ call.next <= Len(call.chain)
  /\ call.chain[call.next] = gate

\* The gate calls the function it wraps.
GatePass ==
  /\ call' = [call EXCEPT !.next = @ + 1]
  /\ UNCHANGED ret

\* The gate throws; nothing inside it is called.
GateThrow(e) ==
  /\ ret' = [ret EXCEPT !.done = TRUE, !.error = e]
  /\ UNCHANGED call

\* middleware/rbac withPermission
withPermission ==
  /\ AtGate("withPermission")
  /\ LET user == call.user
         authorized == isAuthorized(user, call.permission)
     IN IF ~user.exists \/ ~user.isAuthenticated
        THEN GateThrow("AuthorizationError")
        ELSE IF authorized.error # "none" THEN GateThrow(authorized.error)
        ELSE IF ~authorized.value THEN GateThrow("AuthorizationError")
        ELSE GatePass
  /\ UNCHANGED <<accounts, txs, txDoc, acctDoc, result, posted>>

\* middleware/rbac withOwnershipCheck
withOwnershipCheck ==
  /\ AtGate("withOwnershipCheck")
  /\ LET resource == call.resource
     IN IF ~resource.exists THEN GateThrow("Error")
        ELSE IF ~isOwner(call.user, resource)
        THEN GateThrow("AuthorizationError")
        ELSE GatePass
  /\ UNCHANGED <<accounts, txs, txDoc, acctDoc, result, posted>>

\* middleware/rbac withManagementCheck
withManagementCheck ==
  /\ AtGate("withManagementCheck")
  /\ LET resource == call.resource
     IN IF ~resource.exists THEN GateThrow("Error")
        ELSE IF ~isManager(call.user, resource)
        THEN GateThrow("AuthorizationError")
        ELSE GatePass
  /\ UNCHANGED <<accounts, txs, txDoc, acctDoc, result, posted>>

\* The innermost function: the resolver runs and returns.
resolver ==
  /\ call.fn = "wrapped"
  /\ ~ret.done
  /\ call.next = Len(call.chain) + 1
  /\ ret' = [ret EXCEPT !.done = TRUE, !.resolverCalled = TRUE]
  /\ UNCHANGED <<accounts, txs, txDoc, acctDoc, result, posted, call>>

NextGates ==
  \/ withPermission
  \/ withOwnershipCheck
  \/ withManagementCheck
  \/ resolver

SpecGates == InitGates /\ [][NextGates]_vars

(* --------------------------- ledger queries ---------------------------- *)
MaxLedger == 3      \* transactions in a list given to a ledger query

\* Variant of SignedAmount that adds refunds instead of subtracting them.
SignedAmount_RefundAdds(transaction) ==
  IF transaction.type \in {"debit", "purchase", "refund"}
  THEN transaction.amount
  ELSE IF transaction.type = "credit" THEN 0 - transaction.amount
  ELSE 0

\* The adjustment calculateRunningBalance makes for one transaction.
SignedAmount(transaction) ==
  IF transaction.type = "debit" \/ transaction.type = "purchase"
  THEN transaction.amount
  ELSE IF transaction.type = "credit" \/ transaction.type = "refund"
  THEN 0 - transaction.amount
  ELSE 0

\* transactions.map(...) with the running total carried from left to right.
RECURSIVE RunningBalanceFrom(_, _)
RunningBalanceFrom(runningBalance, transactions) ==
  IF transactions = <<>> THEN <<>>
  ELSE LET transaction == Head(transactions)
           balance == runningBalance + SignedAmount(transaction)
       IN <<[type |-> transaction.type, amount |-> transaction.amount,
             runningBalance |-> balance]>>
            \o RunningBalanceFrom(balance, Tail(transactions))

\* utils/ledger calculateRunningBalance
calculateRunningBalance(transactions) == RunningBalanceFrom(0, transactions)

\* Lists of up to MaxLedger transactions.
ListsOf(S) == UNION {[1..n -> S] : n \in 0..MaxLedger}

LedgerTransactions ==
  [type : TransactionTypes, amount : {1, MaxAmount}]

InitRunning ==
  /\ accounts = [a \in AccountIds |->
                   NewAccount(a, IF a = "A1" THEN "asset" ELSE "liability")]
  /\ Idle
  /\ \E transactions \in ListsOf(LedgerTransactions) :
       call = [fn |-> "calculateRunningBalance",
               transactions |-> transactions]
  /\ ret = [done |-> FALSE, value |-> <<>>]

CallCalculateRunningBalance ==
  /\ call.fn = "calculateRunningBalance"
  /\ ~ret.done
  /\ ret' = [done |-> TRUE,
             value |-> calculateRunningBalance(call.transactions)]
  /\ UNCHANGED <<accounts, txs, txDoc, acctDoc, result, posted, call>>

NextRunning == CallCalculateRunningBalance

SpecRunning == InitRunning /\ [][NextRunning]_vars

(* ------------------------ aggregation by period ------------------------ *)
\* Time is counted in hours since 2023-01-01T00:00Z, a Sunday; a Date is
\* such an instant.  Calendar dates are [month, day] of 2023.
MonthLengths == <<31, 28, 31, 30, 31, 30, 31, 31, 30, 31, 30, 31>>

RECURSIVE DateInMonth(_, _)
DateInMonth(month, dayOfYear) ==
  IF dayOfYear < MonthLengths[month]
  THEN [month |-> month, day |-> dayOfYear + 1]
  ELSE DateInMonth(month + 1, dayOfYear - MonthLengths[month])

\* The calendar date of a 0-based day of the year.
CalendarDate(dayOfYear) == DateInMonth(1, dayOfYear)

RECURSIVE DaysBeforeMonth(_)
DaysBeforeMonth(month) ==
  IF month = 1 THEN 0
  ELSE DaysBeforeMonth(month - 1) + MonthLengths[month - 1]

\* date.toISOString().split("T")[0]: the UTC calendar date.
ISODate(date) == CalendarDate(date \div 24)

\* The local day the process clock shows for an instant; timezone is the
\* process's offset from UTC in hours.
LocalDay(date, timezone) == (date + timezone) \div 24

\* date.getDay(): the local day of the week, 0 for Sunday.
getDay(date, timezone) == LocalDay(date, timezone) % 7

\* date.getMonth() + 1: the local month.
LocalMonth(date, timezone) == CalendarDate(LocalDay(date, timezone)).month

\* weekStart.setDate(date.getDate() - date.getDay()): the same local time
\* of day, getDay() local days earlier.
WeekStart(date, timezone) == date - 24 * getDay(date, timezone)

\* new Date(key) for a key "YYYY-MM-DD" or "YYYY-MM" (day 0): UTC midnight.
DateParse(key) ==
  24 * (DaysBeforeMonth(key.month) + (IF key.day = 0 THEN 1 ELSE key.day) - 1)

\* The switch on period.
PeriodKey(transaction, period, timezone) ==
  LET date == transaction.createdAt
  IN CASE period = "day" -> ISODate(date)
       [] period = "week" -> ISODate(WeekStart(date, timezone))
       [] period = "month" ->
            [month |-> LocalMonth(date, timezone), day |-> 0]
       [] OTHER -> ISODate(date)

\* The body of forEach: aggregated lists the buckets in insertion order.
AddToBucket(aggregated, transaction, key) ==
  LET fresh == IF \E i \in 1..Len(aggregated) : aggregated[i].date = key
               THEN aggregated
               ELSE Append(aggregated,
                           [date |-> key, totalAmount |-> 0, count |-> 0,
                            transactions |-> <<>>])
  IN [i \in 1..Len(fresh) |->
        IF fresh[i].date = key
        THEN [fresh[i] EXCEPT !.totalAmount = @ + transaction.amount,
                              !.count = @ + 1,
                              !.transactions = Append(@, transaction)]
        ELSE fresh[i]]

RECURSIVE AggregateFrom(_, _, _, _)
AggregateFrom(aggregated, transactions, period, timezone) ==
  IF transactions = <<>> THEN aggregated
  ELSE AggregateFrom(
         AddToBucket(aggregated, Head(transactions),
                     PeriodKey(Head(transactions), period, timezone)),
         Tail(transactions), period, timezone)

\* Array.prototype.sort((a, b) => new Date(a.date) - new Date(b.date)):
\* a stable sort, here by insertion.
InsertBucket(sorted, bucket) ==
  LET before == SelectSeq(sorted, LAMBDA b :
                            DateParse(b.date) <= DateParse(bucket.date))
      after == SelectSeq(sorted, LAMBDA b :
                           DateParse(b.date) > DateParse(bucket.date))
  IN before \o <<bucket>> \o after

RECURSIVE SortBuckets(_)
SortBuckets(buckets) ==
  IF buckets = <<>> THEN <<>>
  ELSE InsertBucket(SortBuckets(SubSeq(buckets, 1, Len(buckets) - 1)),
                    buckets[Len(buckets)])

\* utils/ledger aggregateByPeriod, run by a process in the given timezone.
aggregateByPeriod(transactions, period, timezone) ==
  SortBuckets(AggregateFrom(<<>>, transactions, period, timezone))

\* Instants: Mon 30 Jan 10:00Z and 22:00Z, Tue 31 Jan 20:00Z, Wed 1 Feb
\* 09:00Z, Sun 5 Feb 12:00Z.
Instants == {706, 718, 740, 753, 852}

\* Process timezones: UTC and UTC+6.
Timezones == {0, 6}

Periods == {"day", "week", "month", "year"}

DatedTransactions == [createdAt : Instants, amount : {1, MaxAmount}]

InitAggregate ==
  /\ accounts = [a \in AccountIds |->
                   NewAccount(a, IF a = "A1" THEN "asset" ELSE "liability")]
  /\ Idle
  /\ \E transactions \in ListsOf(DatedTransactions), period \in Periods,
        timezone \in Timezones :
       call = [fn |-> "aggregateByPeriod", transactions |-> transactions,
               period |-> period, timezone |-> timezone]
  /\ ret = [done |-> FALSE, value |-> <<>>]

CallAggregateByPeriod ==
  /\ call.fn = "aggregateByPeriod"
  /\ ~ret.done
  /\ ret' = [done |-> TRUE,
             value |-> aggregateByPeriod(call.transactions, call.period,
                                         call.timezone)]
  /\ UNCHANGED <<accounts, txs, txDoc, acctDoc, result, posted, call>>

NextAggregate == CallAggregateByPeriod

SpecAggregate == InitAggregate /\ [][NextAggregate]_vars

(* -------------------- balance sheet: SpecSheet ------------------------- *)
\* entity { entityType, entityId } of an Account document.
Entity(entityType, entityId) == [entityType |-> entityType, entityId |-> entityId]

OrgIds == {"O1", "O2"}           \* ObjectId strings of organizations
InvalidOrgId == "not-an-id"      \* a string new ObjectId() rejects

\* An Account document with its entity and a stored balance.
EntityAccount(a, accountType, entity, balance) ==
  [_id |-> a, accountType |-> accountType, balance |-> balance,
   entity |-> entity]

\* Order in which Account.find returns the stored documents.
AccountOrder == <<"A1", "A2", "A3">>

\* Variant of the find filter that matches accounts of every entity.
SheetFilter_AnyEntity(doc, accountType, orgId) ==
  doc.accountType = accountType

\* The filter of the three Account.find calls of generateBalanceSheet.
SheetFilter(doc, accountType, orgId) ==
  /\ doc.accountType = accountType
  /\ doc.entity.entityType = "organization"
  /\ doc.entity.entityId = orgId

RECURSIVE FindFrom(_, _, _)
FindFrom(i, accountType, orgId) ==
  IF i > Len(AccountOrder) THEN <<>>
  ELSE LET doc == accounts[AccountOrder[i]]
       IN (IF SheetFilter(doc, accountType, orgId) THEN <<doc>> ELSE <<>>)
            \o FindFrom(i + 1, accountType, orgId)

\* docs.reduce((sum, acc) => sum + acc.balance, 0)
RECURSIVE ReduceBalance(_, _)
ReduceBalance(sum, docs) ==
  IF docs = <<>> THEN sum
  ELSE ReduceBalance(sum + Head(docs).balance, Tail(docs))

\* { accounts, total } of one section of the balance sheet.
SheetSection(docs) == [accounts |-> docs, total |-> ReduceBalance(0, docs)]

\* The object generateBalanceSheet returns.
BalanceSheet(assets, liabilities, equity) ==
  [assets |-> assets, liabilities |-> liabilities, equity |-> equity,
   balance |-> assets.total = liabilities.total + equity.total]

NoSheet == BalanceSheet(SheetSection(<<>>), SheetSection(<<>>), SheetSection(<<>>))

\* The accounts the balance sheet reads; A3 belongs to another entity.
SheetAccountIds == AccountIds \cup {"A3"}

InitSheet ==
  /\ \E t1 \in {"asset", "liability", "equity"},
        t2 \in {"asset", "liability", "equity", "expense"},
        o2 \in OrgIds, e3 \in {Entity("organization", "O2"), Entity("branch", "O1")},
        b1 \in {0, MaxBalance}, b2 \in {0, MaxBalance} :
       accounts = [a \in SheetAccountIds |->
                     IF a = "A1"
                     THEN EntityAccount(a, t1, Entity("organization", "O1"), b1)
                     ELSE IF a = "A2"
                     THEN EntityAccount(a, t2, Entity("organization", o2), b2)
                     ELSE EntityAccount(a, "asset", e3, MaxBalance)]
  /\ Idle
  /\ \E orgId \in {"O1", InvalidOrgId} :
       call = [fn |-> "generateBalanceSheet", orgId |-> orgId,
               pc |-> "assets", assets |-> SheetSection(<<>>),
               liabilities |-> SheetSection(<<>>)]
  /\ ret = [done |-> FALSE, error |-> "none", value |-> NoSheet]

\* First await: new ObjectId(orgId) throws for a malformed id and the catch
\* block rethrows DatabaseError; otherwise the asset accounts are read.
generateBalanceSheetAssets ==
  /\ call.fn = "generateBalanceSheet"
  /\ call.pc = "assets"
  /\ IF call.orgId \notin OrgIds
     THEN /\ call' = [call EXCEPT !.pc = "done"]
          /\ ret' = [done |-> TRUE, error |-> "DatabaseError", value |-> NoSheet]
     ELSE /\ call' = [call EXCEPT
                        !.pc = "liabilities",
                        !.assets = SheetSection(FindFrom(1, "asset", call.orgId))]
          /\ ret' = ret
  /\ UNCHANGED <<accounts, txs, txDoc, acctDoc, result, posted>>

\* Second await: the liability accounts are read.
generateBalanceSheetLiabilities ==
  /\ call.fn = "generateBalanceSheet"
  /\ call.pc = "liabilities"
  /\ call' = [call EXCEPT
                !.pc = "equity",
                !.liabilities =
                   SheetSection(FindFrom(1, "liability", call.orgId))]
  /\ UNCHANGED <<accounts, txs, txDoc, acctDoc, result, posted, ret>>

\* Third await: the equity accounts are read, the totals are compared and
\* the balance sheet is returned.
generateBalanceSheetEquity ==
  /\ call.fn = "generateBalanceSheet"
  /\ call.pc = "equity"
  /\ call' = [call EXCEPT !.pc = "done"]
  /\ ret' = [done |-> TRUE, error |-> "none",
             value |-> BalanceSheet(call.assets, call.liabilities,
                         SheetSection(FindFrom(1, "equity", call.orgId)))]
  /\ UNCHANGED <<accounts, txs, txDoc, acctDoc, result, posted>>

\* The balance sheet runs while another handler posts to the accounts.
NextSheet ==
  \/ generateBalanceSheetAssets
  \/ generateBalanceSheetLiabilities
  \/ generateBalanceSheetEquity
  \/ \E a \in AccountIds : LoadAccount("w2", a)
  \/ \E op \in {"debit", "credit"} : updateBalance("w2", 1, op)

SpecSheet == InitSheet /\ [][NextSheet]_vars

(* ------------------------- bearer tokens: SpecHeader ------------------- *)
\* A header or token string is a sequence of pieces: the space character,
\* or a run of non-space characters that is compared as a whole. "tA" and
\* "tV" are access tokens signed for an Admin and for a Vendor, "tX" is an
\* access token whose expiry has passed; no other string verifies.
MaxHeader == 5
HeaderSymbols == {" ", "Bearer", "bearer", "tA", "tX"}

\* An absent string (null / undefined) and the strings that are falsy.
NoString == Absent(<<>>)
TruthyString(s) == s.present /\ s.value # <<>>

\* a || b
OrElse(a, b) == IF TruthyString(a) THEN a ELSE b

\* String.prototype.split(' '): the runs between spaces, empty runs kept.
RECURSIVE SplitFrom(_, _, _)
SplitFrom(s, current, parts) ==
  IF s = <<>> THEN Append(parts, current)
  ELSE IF Head(s) = " "
  THEN SplitFrom(Tail(s), <<>>, Append(parts, current))
  ELSE SplitFrom(Tail(s), Append(current, Head(s)), parts)

Split(s) == SplitFrom(s, <<>>, <<>>)

\* utils/jwt extractTokenFromHeader
extractTokenFromHeader(authHeader) ==
  IF ~TruthyString(authHeader) THEN NoString
  ELSE LET parts == Split(authHeader.value)
       IN IF Len(parts) # 2 \/ parts[1] # <<"Bearer">>
          THEN NoString
          ELSE Present(parts[2])

\* Every header of up to MaxHeader pieces, and the absent header.
Headers ==
  {NoString} \cup
    {Present(h) : h \in UNION {[1..n -> HeaderSymbols] : n \in 0..MaxHeader}}

InitHeader ==
  /\ accounts = [a \in AccountIds |->
                   NewAccount(a, IF a = "A1" THEN "asset" ELSE "liability")]
  /\ Idle
  /\ \E authHeader \in Headers :
       call = [fn |-> "extractTokenFromHeader", authHeader |-> authHeader]
  /\ ret = [done |-> FALSE, value |-> NoString]

CallExtractTokenFromHeader ==
  /\ call.fn = "extractTokenFromHeader"
  /\ ~ret.done
  /\ ret' = [done |-> TRUE, value |-> extractTokenFromHeader(call.authHeader)]
  /\ UNCHANGED <<accounts, txs, txDoc, acctDoc, result, posted, call>>

NextHeader == CallExtractTokenFromHeader

SpecHeader == InitHeader /\ [][NextHeader]_vars

(* --------------------- authentication: SpecAuth ------------------------ *)
\* Payloads of the access tokens that verify.
TokenPayloads ==
  [tA |-> [userId |-> "U1", employeeId |-> "E1", designation |-> "Admin"],
   tV |-> [userId |-> "U2", employeeId |-> "E2", designation |-> "Vendor"]]

NoPayload == [userId |-> NULL, employeeId |-> NULL, designation |-> NULL]

\* Variant of verifyAccessToken that also accepts the expired token.
verifyAccessToken_AcceptExpired(token) ==
  IF Len(token) = 1 /\ token[1] \in DOMAIN TokenPayloads
  THEN [error |-> "none", message |-> "", value |-> TokenPayloads[token[1]]]
  ELSE IF token = <<"tX">>
  THEN [error |-> "none", message |-> "", value |-> TokenPayloads["tA"]]
  ELSE [error |-> "Error", message |-> "Invalid token", value |-> NoPayload]

\* utils/jwt verifyAccessToken: jwt.verify returns the payload, or throws
\* TokenExpiredError / JsonWebTokenError, rethrown as plain Errors.
verifyAccessToken(token) ==
  IF Len(token) = 1 /\ token[1] \in DOMAIN TokenPayloads
  THEN [error |-> "none", message |-> "", value |-> TokenPayloads[token[1]]]
  ELSE IF token = <<"tX">>
  THEN [error |-> "Error", message |-> "Token expired", value |-> NoPayload]
  ELSE [error |-> "Error", message |-> "Invalid token", value |-> NoPayload]

\* { userId, employeeId, designation } built from a decoded payload. The
\* object has these three keys only: a read of any other property of it,
\* isAuthenticated included, is undefined, which is falsy.
DecodedUser(decoded) ==
  ContextUser(FALSE, decoded.designation, decoded.userId, decoded.employeeId)

\* req of a middleware call, or event of the Lambda handler: null, without
\* headers, or with the two spellings of the authorization header.
Request(authorization, Authorization) ==
  [exists |-> TRUE, headers |-> TRUE, authorization |-> authorization,
   Authorization |-> Authorization]
NoHeadersRequest ==
  [exists |-> TRUE, headers |-> FALSE, authorization |-> NoString,
   Authorization |-> NoString]
NullRequest == [NoHeadersRequest EXCEPT !.exists = FALSE]

\* What a middleware has done when control leaves it.
Outcome(error, message, user, nextCalls) ==
  [error |-> error, message |-> message, user |-> user,
   nextCalls |-> nextCalls]

\* The try block of authenticate, up to its first throw or to its end.
authenticateTry(req) ==
  IF ~req.exists \/ ~req.headers
  THEN Outcome("TypeError", "Cannot read properties of undefined",
               NullContextUser, 0)
  ELSE LET authHeader == OrElse(req.authorization, req.Authorization)
           token == extractTokenFromHeader(authHeader)
           decoded == verifyAccessToken(token.value)
       IN IF ~TruthyString(token)
          THEN Outcome("AuthenticationError", "No token provided",
                       NullContextUser, 0)
          ELSE IF decoded.error # "none"
          THEN Outcome(decoded.error, decoded.message, NullContextUser, 0)
          ELSE Outcome("none", "", DecodedUser(decoded.value), 1)

\* middleware/auth authenticate: the catch block replaces whatever the try
\* block threw.
authenticate(req) ==
  LET try == authenticateTry(req)
  IN IF try.error # "none"
     THEN [try EXCEPT !.error = "AuthenticationError",
                      !.message = "Invalid or expired token"]
     ELSE try

\* The try block of optionalAuth.
optionalAuthTry(req) ==
  IF ~req.exists \/ ~req.headers
  THEN Outcome("TypeError", "Cannot read properties of undefined",
               NullContextUser, 0)
  ELSE LET authHeader == OrElse(req.authorization, req.Authorization)
           token == extractTokenFromHeader(authHeader)
           decoded == verifyAccessToken(token.value)
       IN IF ~TruthyString(token)
          THEN Outcome("none", "", NullContextUser, 0)
          ELSE IF decoded.error # "none"
          THEN Outcome(decoded.error, decoded.message, NullContextUser, 0)
          ELSE Outcome("none", "", DecodedUser(decoded.value), 0)

\* middleware/auth optionalAuth: the catch block swallows the error, then
\* next() is called.
optionalAuth(req) ==
  LET try == optionalAuthTry(req)
  IN [try EXCEPT !.error = "none", !.message = "", !.nextCalls = @ + 1]

\* The GraphQL context.
AuthContext(user, isAuthenticated) ==
  [user |-> user, isAuthenticated |-> isAuthenticated]

\* middleware/auth buildAuthContext: the value returned, or the error that
\* leaves the function.
buildAuthContext(event) ==
  LET context == AuthContext(NullContextUser, FALSE)
  IN IF ~event.exists THEN Returned(context)
     ELSE LET authHeader ==
                IF event.headers
                THEN OrElse(event.Authorization, event.authorization)
                ELSE NoString
              token == extractTokenFromHeader(authHeader)
              decoded == verifyAccessToken(token.value)
          IN IF ~TruthyString(token) THEN Returned(context)
             ELSE IF decoded.error # "none" THEN Returned(context)
             ELSE Returned(AuthContext(DecodedUser(decoded.value), TRUE))

\* Headers offered to the middlewares.
AuthHeaderInputs ==
  {NoString, Present(<<>>), Present(<<"Bearer", " ", "tA">>),
   Present(<<"Bearer", " ", "tV">>), Present(<<"Bearer", " ", "tX">>),
   Present(<<"Bearer", " ", "junk">>), Present(<<"Bearer", " ">>),
   Present(<<"tA">>), Present(<<"bearer", " ", "tA">>)}

RequestInputs ==
  {NullRequest, NoHeadersRequest} \cup
    {Request(h1, h2) : h1 \in AuthHeaderInputs, h2 \in AuthHeaderInputs}

NoOutcome == Outcome("none", "", NullContextUser, 0)

InitAuth ==
  /\ accounts = [a \in AccountIds |->
                   NewAccount(a, IF a = "A1" THEN "asset" ELSE "liability")]
  /\ Idle
  /\ \E fn \in {"authenticate", "optionalAuth", "buildAuthContext"},
        req \in RequestInputs :
       call = [fn |-> fn, req |-> req]
  /\ ret = [done |-> FALSE, outcome |-> NoOutcome,
            value |-> Returned(AuthContext(NullContextUser, FALSE))]

CallAuthenticate ==
  /\ call.fn = "authenticate"
  /\ ~ret.done
  /\ ret' = [ret EXCEPT !.done = TRUE, !.outcome = authenticate(call.req)]
  /\ UNCHANGED <<accounts, txs, txDoc, acctDoc, result, posted, call>>

CallOptionalAuth ==
  /\ call.fn = "optionalAuth"
  /\ ~ret.done
  /\ ret' = [ret EXCEPT !.done = TRUE, !.outcome = optionalAuth(call.req)]
  /\ UNCHANGED <<accounts, txs, txDoc, acctDoc, result, posted, call>>

CallBuildAuthContext ==
  /\ call.fn = "buildAuthContext"
  /\ ~ret.done
  /\ ret' = [ret EXCEPT !.done = TRUE, !.value = buildAuthContext(call.req)]
  /\ UNCHANGED <<accounts, txs, txDoc, acctDoc, result, posted, call>>

NextAuth ==
  \/ CallAuthenticate
  \/ CallOptionalAuth
  \/ CallBuildAuthContext

SpecAuth == InitAuth /\ [][NextAuth]_vars

(* ----------------------- asyncHandler: SpecAsync ----------------------- *)
\* What the wrapped function does when called: return a promise that is
\* later fulfilled or rejected, return a plain value, or throw before
\* returning; it may call next itself before that.
Behaviours ==
  [kind : {"resolve", "reject", "return", "throw"},
   error : {"ValidationError", "DatabaseError", "Error"},
   value : {"v1", "v2"}, callsNext : BOOLEAN]

InitAsync ==
  /\ accounts = [a \in AccountIds |->
                   NewAccount(a, IF a = "A1" THEN "asset" ELSE "liability")]
  /\ Idle
  /\ \E fn \in Behaviours :
       call = [fn |-> "asyncHandler", wrapped |-> fn, pc |-> "call",
               promise |-> "none"]
  /\ ret = [done |-> FALSE, escaped |-> "none", nextCalls |-> <<>>,
            fnNextCalls |-> 0]

\* (req, res, next) => { Promise.resolve(fn(req, res, next)).catch(next) }:
\* fn is called first; if it throws, the exception leaves the wrapper
\* before a promise exists. Otherwise the catch reaction is registered on
\* the promise and the wrapper returns.
asyncHandler ==
  /\ call.fn = "asyncHandler"
  /\ call.pc = "call"
  /\ LET fn == call.wrapped
         called == IF fn.callsNext THEN 1 ELSE 0
     IN IF fn.kind = "throw"
        THEN /\ call' = [call EXCEPT !.pc = "done"]
             /\ ret' = [ret EXCEPT !.done = TRUE, !.escaped = fn.error,
                                   !.fnNextCalls = called]
        ELSE /\ call' = [call EXCEPT
                           !.pc = "returned",
                           !.promise = IF fn.kind = "return" THEN "fulfilled"
                                       ELSE "pending"]
             /\ ret' = [ret EXCEPT !.fnNextCalls = called]
  /\ UNCHANGED <<accounts, txs, txDoc, acctDoc, result, posted>>

\* The promise the wrapped function returned settles.
promiseSettles ==
  /\ call.fn = "asyncHandler"
  /\ call.pc = "returned"
  /\ call.promise = "pending"
  /\ call' = [call EXCEPT
                !.promise = IF call.wrapped.kind = "reject" THEN "rejected"
                            ELSE "fulfilled"]
  /\ UNCHANGED <<accounts, txs, txDoc, acctDoc, result, posted, ret>>

\* The reaction registered by .catch(next) runs: next(error) for a rejected
\* promise, nothing for a fulfilled one.
catchReaction ==
  /\ call.fn = "asyncHandler"
  /\ call.pc = "returned"
  /\ call.promise \in {"fulfilled", "rejected"}
  /\ call' = [call EXCEPT !.pc = "done"]
  /\ ret' = [ret EXCEPT
               !.done = TRUE,
               !.nextCalls = IF call.promise = "rejected"
                             THEN Append(@, call.wrapped.error) ELSE @]
  /\ UNCHANGED <<accounts, txs, txDoc, acctDoc, result, posted>>

NextAsync ==
  \/ asyncHandler
  \/ promiseSettles
  \/ catchReaction

SpecAsync == InitAsync /\ [][NextAsync]_vars

(* ------------------ posting both sides: SpecPair ----------------------- *)
\* Account.findById(a) followed by updateBalance(amount, operation) and its
\* save(), applied to the stored documents.
PostLeg(stored, a, amount, operation) ==
  [stored EXCEPT
     ![a] = SaveModified(@, stored[a],
                         updateBalanceDoc(stored[a], amount, operation))]

\* Both sides of an approved transaction are posted, one after the other:
\* a debit of n to its debit account, then a credit of n to its credit
\* account.
PostBothSides(w, debitAccount, creditAccount, n) ==
  LET afterDebit == PostLeg(accounts, debitAccount, n, "debit")
      afterCredit == PostLeg(afterDebit, creditAccount, n, "credit")
  IN /\ \A a \in AccountIds :
          afterCredit[a].balance \in (0 - MaxBalance)..MaxBalance
     /\ accounts' = afterCredit
     /\ posted' = [a \in AccountIds |->
                     posted[a] + (afterCredit[a].balance - accounts[a].balance)]
     /\ acctDoc' = [acctDoc EXCEPT ![w] = afterCredit[creditAccount]]
     /\ result' = [result EXCEPT ![w] = "ok"]
     /\ UNCHANGED <<txs, txDoc, call, ret>>

\* Accounts of every pair of types, each with a balance already stored.
InitPair ==
  /\ \E t1 \in AccountTypes, t2 \in AccountTypes,
        b1 \in 0..1, b2 \in 0..1 :
       accounts = [a \in AccountIds |->
                     [NewAccount(a, IF a = "A1" THEN t1 ELSE t2)
                        EXCEPT !.balance = IF a = "A1" THEN b1 ELSE b2]]
  /\ Idle
  /\ NoCall

NextPair ==
  \E debitAccount \in AccountIds, creditAccount \in AccountIds,
     n \in 0..MaxAmount :
    PostBothSides("w1", debitAccount, creditAccount, n)

SpecPair == InitPair /\ [][NextPair]_vars

(* ------------------- decisions on linked pairs: SpecLegs --------------- *)
\* A well-formed first leg, and the partner data handed to createDoubleEntry
\* for it: the other side of the same movement.
FirstLegs ==
  {TxData(TxId("TX", 1), n, "debit", Side("A1"), Side("A2"), Ref("E1"), "d", 0) :
     n \in 1..MaxAmount}

PartnerOf(this) ==
  TxData(NoTxId, this.amount, "credit", this.debitAccount, this.creditAccount,
         this.reference, this.description, 0)

\* A first leg is stored, its partner is created and linked by
\* createDoubleEntry, and a handler loads either leg and decides it.
NextLegs ==
  \/ /\ Len(txs) < MaxCreated - 1
     /\ \E data \in FirstLegs : SaveTransaction("w1", data)
  \/ /\ Len(txs) < MaxCreated
     /\ \E n \in TxIdPool :
          /\ txDoc["w1"].linkedTransaction = 0
          /\ createDoubleEntry("w1", PartnerOf(txDoc["w1"]), n)
  \/ \E id \in 1..MaxCreated : LoadTransaction("w1", id)
  \/ \E a \in Approvers : approve("w1", a)
  \/ \E a \in Approvers, r \in Reasons : reject("w1", a, r)

SpecLegs == Init /\ [][NextLegs]_vars

(* ---------------- request to resolver: SpecRequest --------------------- *)
\* A resolver wrapped with withPermission is called either through the
\* Lambda handler, for an event, or directly with a prepared context.user,
\* as the unit tests of the gate call it.
InitRequest ==
  /\ accounts = [a \in AccountIds |->
                   NewAccount(a, IF a = "A1" THEN "asset" ELSE "liability")]
  /\ Idle
  /\ \E permission \in {"view_transaction", "approve_transaction",
                        "create_transaction"} :
       \/ \E event \in RequestInputs :
            call = [fn |-> "handler", event |-> event,
                    context |-> AuthContext(NullContextUser, FALSE),
                    chain |-> <<"withPermission">>, next |-> 1,
                    user |-> NullContextUser, permission |-> permission]
       \/ \E user \in ContextUserInputs :
            call = [fn |-> "wrapped", event |-> NullRequest,
                    context |-> AuthContext(user, FALSE),
                    chain |-> <<"withPermission">>, next |-> 1,
                    user |-> user, permission |-> permission]
  /\ ret = [done |-> FALSE, error |-> "none", resolverCalled |-> FALSE]

\* lambda handler: the GraphQL context is what buildAuthContext returns; the
\* wrapped resolver is called with it and reads `const { user } = context`.
handler ==
  /\ call.fn = "handler"
  /\ LET graphQLContext == buildAuthContext(call.event).value
     IN call' = [call EXCEPT !.fn = "wrapped", !.context = graphQLContext,
                             !.user = graphQLContext.user]
  /\ UNCHANGED <<accounts, txs, txDoc, acctDoc, result, posted, ret>>

NextRequest ==
  \/ handler
  \/ withPermission
  \/ resolver

SpecRequest == InitRequest /\ [][NextRequest]_vars

(* ----------------- all-or-nothing creation: SpecAtomic ----------------- *)
\* transactionSchema.methods.createDoubleEntry called on a document built by
\* new Transaction(data) that has not been saved: partner.save() stores the
\* partner with linkedTransaction = this._id, then this.save() validates and
\* inserts `this`. No session or transaction spans the two saves.
createDoubleEntryUnsaved(w, data, partnerTransaction, n) ==
  /\ LET id == Len(txs) + 2
         this == NewTransaction(id, data)
         partner == NewTransaction(Len(txs) + 1,
                      [partnerTransaction EXCEPT
                         !.linkedTransaction = this._id,
                         !.transactionId = TxId("TX", n)])
         linked == [this EXCEPT !.linkedTransaction = partner._id]
     IN IF ~ValidTransaction(partner) \/ DuplicateTransactionId(txs, partner)
        THEN \* partner.save() rejects; the error propagates
             /\ result' = [result EXCEPT ![w] = "MongooseError"]
             /\ UNCHANGED <<txs, txDoc>>
        ELSE IF ~ValidTransaction(linked)
                \/ DuplicateTransactionId(Append(txs, partner), linked)
        THEN \* this.save() rejects; the partner stays stored
             /\ txs' = Append(txs, partner)
             /\ result' = [result EXCEPT ![w] = "MongooseError"]
             /\ UNCHANGED txDoc
        ELSE /\ txs' = Append(Append(txs, partner), linked)
             /\ txDoc' = [txDoc EXCEPT ![w] = linked]
             /\ result' = [result EXCEPT ![w] = "ok"]
  /\ UNCHANGED <<accounts, acctDoc, posted, call, ret>>

\* Data for the document createDoubleEntry is called on, and for its
\* partner: well-formed, or with the required reference missing.
LegInputs ==
  {TxData(TxId("TX", k), m, ty, Side("A1"), Side("A2"), ref, "d", 0) :
     k \in TxIdPool, m \in {1, MaxAmount}, ty \in {"debit", "credit"},
     ref \in {Ref("E1"), NoRef}}

NextAtomic ==
  \/ /\ Len(txs) < MaxCreated
     /\ \E data \in DecisionInputs : SaveTransaction("w1", data)
  \/ \E id \in 1..MaxCreated : LoadTransaction("w1", id)
  \/ /\ Len(txs) < MaxCreated
     /\ \E partner \in LegInputs, n \in TxIdPool :
          createDoubleEntry("w1", partner, n)
  \/ /\ Len(txs) + 1 < MaxCreated
     /\ \E data \in LegInputs, partner \in LegInputs, n \in TxIdPool :
          createDoubleEntryUnsaved("w1", data, partner, n)
  \/ /\ Len(txs) + 1 < MaxCreated
     /\ \E d \in SideInputs, c \in SideInputs, n \in Amounts,
           nd \in TxIdPool, nc \in TxIdPool :
          createDoubleEntryTransaction("w1", d, c, n, "d", nd, nc)

SpecAtomic == Init /\ [][NextAtomic]_vars

(* ============================== claims ================================= *)
Decided(status) == status \in {"approved", "rejected"}

\* A decision (approve or reject) made by worker w in this step.
Decision(w) ==
  \/ \E a \in Approvers : approve(w, a)
  \/ \E a \in Approvers, r \in Reasons : reject(w, a, r)

\* C1: once a stored transaction's status is approved or rejected, no later
\* step changes that status.
C1_StatusTerminal ==
  [][\A i \in 1..Len(txs) :
       Decided(txs[i].status) => txs'[i].status = txs[i].status]_vars

\* C2: approve called for a transaction whose stored status is already
\* approved or rejected fails with ConflictError and leaves every account
\* balance and the stored transaction (status, approver) as they were.
C2_ApproveDecidedConflict ==
  [][\A w \in Workers, a \in Approvers :
       (approve(w, a) /\ Decided(txs[txDoc[w]._id].status))
         => /\ result'[w] = "ConflictError"
            /\ accounts' = accounts
            /\ txs' = txs]_vars

\* C3: of two decisions racing on one pending transaction from separately
\* loaded copies, the one that saves second (its copy still says pending, the
\* stored record is already decided) fails with ConflictError and does not
\* overwrite the winner's status or approver.
C3_OneDecisionWins ==
  [][\A w \in Workers :
       (Decision(w) /\ txDoc[w].status = "pending"
                    /\ Decided(txs[txDoc[w]._id].status))
         => /\ result'[w] = "ConflictError"
            /\ txs' = txs]_vars

\* C4: the stored balance of every account equals its initial balance (0)
\* plus the sum of the signed deltas of all completed postings.
C4_NoLostPosting ==
  \A a \in AccountIds : accounts[a].balance = posted[a]

\* C5: approving a pending transaction(A, B, n) changes A's stored balance by
\* the signed effect of a debit of n and B's by the signed effect of a credit
\* of n, and the stored status becomes approved.
C5_ApprovePosts ==
  [][\A w \in Workers, a \in Approvers :
       (approve(w, a) /\ txs[txDoc[w]._id].status = "pending")
         => LET t == txs[txDoc[w]._id]
                d == t.debitAccount.accountId
                c == t.creditAccount.accountId
            IN /\ txs'[t._id].status = "approved"
               /\ accounts'[d].balance = accounts[d].balance
                    + BalanceDelta(accounts[d].accountType, t.amount, "debit")
               /\ accounts'[c].balance = accounts[c].balance
                    + BalanceDelta(accounts[c].accountType, t.amount, "credit")]_vars

\* C6: updateBalance with amount n > 0 changes the balance by +n for a debit
\* and -n for a credit on asset and expense accounts, by -n for a debit and +n
\* for a credit on liability, equity and revenue accounts; the saved balance
\* is the new balance, and the account's type and id and every other account
\* stay as they were.
C6_NormalBalanceRule ==
  [][\A n \in 1..MaxAmount, op \in {"debit", "credit"} :
       updateBalance("w1", n, op)
         => LET doc == acctDoc["w1"]
                a == doc._id
                signed ==
                  CASE doc.accountType \in {"asset", "expense"} ->
                         IF op = "debit" THEN n ELSE 0 - n
                    [] doc.accountType \in {"liability", "equity", "revenue"} ->
                         IF op = "debit" THEN 0 - n ELSE n
            IN /\ acctDoc'["w1"].balance = doc.balance + signed
               /\ accounts'[a].balance = accounts[a].balance + signed
               /\ accounts'[a].accountType = accounts[a].accountType
               /\ accounts'[a]._id = a
               /\ acctDoc'["w1"].accountType = doc.accountType
               /\ \A b \in AccountIds \ {a} : accounts'[b] = accounts[b]]_vars

\* C6 witness: postings have moved accounts of a debit-normal and of a
\* credit-normal type away from 0.
C6_Witness ==
  /\ accounts["A1"].accountType = "expense" /\ accounts["A1"].balance > 0
  /\ accounts["A2"].accountType = "revenue" /\ accounts["A2"].balance > 0
  /\ result["w1"] = "ok"

\* C9: rejecting a pending transaction with reason r stores status rejected
\* and metadata.rejectionReason = r, and leaves every account as it was.
C9_RejectPending ==
  [][\A w \in Workers, a \in Approvers, r \in Reasons :
       (reject(w, a, r) /\ txs[txDoc[w]._id].status = "pending")
         => /\ txs'[txDoc[w]._id].status = "rejected"
            /\ txs'[txDoc[w]._id].metadata.rejectionReason = r
            /\ accounts' = accounts]_vars

\* C9 witness: a worker has rejected the transaction it holds and the stored
\* record carries the status and the reason.
C9_Witness ==
  \E w \in Workers :
    /\ result[w] = "ok"
    /\ txDoc[w]._id # 0
    /\ txDoc[w].status = "rejected"
    /\ txs[txDoc[w]._id].status = "rejected"
    /\ txs[txDoc[w]._id].metadata.rejectionReason = "r2"
    /\ txs[txDoc[w]._id].approvedBy = txDoc[w].approvedBy
\* C7: createDoubleEntryTransaction with amount > 0 and debit and credit data
\* naming stored accounts succeeds and stores records that are pending and
\* pass every validator of the Transaction schema.
C7_CreateSucceeds ==
  [][\A w \in Workers, d \in {Side(a) : a \in AccountIds},
        c \in {Side(a) : a \in AccountIds}, n \in 1..MaxAmount,
        nd \in TxIdPool, nc \in TxIdPool :
       createDoubleEntryTransaction(w, d, c, n, "d", nd, nc)
         => /\ result'[w] = "ok"
            /\ Len(txs') > Len(txs)
            /\ \A i \in (Len(txs) + 1)..Len(txs') :
                 txs'[i].status = "pending" /\ ValidTransaction(txs'[i])]_vars

AllPending == \A i \in 1..Len(txs) : txs[i].status = "pending"

\* C8: after any sequence of creations (single record, partner of a linked
\* pair, or pair; successful or failed), as long as every stored transaction
\* is still pending, the balance of every account is still its initial 0.
C8_CreationLeavesBalances ==
  AllPending => \A a \in AccountIds : accounts[a].balance = 0

\* C8 witness: a linked pair is stored, both legs pending, and another
\* worker's creation has failed.
C8_Witness ==
  /\ Len(txs) = 2
  /\ txs[1].linkedTransaction = 2 /\ txs[2].linkedTransaction = 1
  /\ AllPending
  /\ \E w \in Workers : result[w] \in {"DatabaseError", "ValidationError"}
  /\ \E w \in Workers : result[w] = "ok"

DesignationOf ==
  [e \in EmployeeIds |-> IF e = "E1" THEN "Employee" ELSE "BranchManager"]
ManagerOf == [e \in EmployeeIds |-> IF e = "E1" THEN "E2" ELSE NULL]

\* The authority check applied to approver a and a transaction document.
Authorized(a, doc) ==
  isManager(User(DesignationOf[a], a), Employee(ManagerOf[doc.reference.refId]))

\* C11: approve or reject of a pending transaction by a principal who is
\* neither Admin nor the originating employee's immediate manager fails with
\* AuthorizationError and leaves the stored transaction (pending, no
\* approver) and every account as they were.
C11_UnauthorizedDecisionFails ==
  [][\A w \in Workers, a \in Approvers :
       ((approve(w, a) \/ \E r \in Reasons : reject(w, a, r))
          /\ txs[txDoc[w]._id].status = "pending"
          /\ ~Authorized(a, txs[txDoc[w]._id]))
         => /\ result'[w] = "AuthorizationError"
            /\ txs' = txs
            /\ accounts' = accounts]_vars

\* C12: once a stored transaction is decided, no later step changes any of
\* its fields or removes it.
C12_DecidedImmutable ==
  [][\A i \in 1..Len(txs) :
       Decided(txs[i].status) => (Len(txs') >= i /\ txs'[i] = txs[i])]_vars
\* C13: every stored transaction has amount > 0 and a debit and a credit
\* account id that both name stored accounts.
C13_StoredTransactionsValid ==
  \A i \in 1..Len(txs) :
    /\ txs[i].amount > 0
    /\ txs[i].debitAccount.accountId \in DOMAIN accounts
    /\ txs[i].creditAccount.accountId \in DOMAIN accounts

\* C14: createDoubleEntryTransaction ends with ValidationError when a side is
\* missing or amount <= 0, and with NotFoundError when both sides are given,
\* amount > 0 and the debit or the credit account is not stored.
C14_ClassifiedCreationErrors ==
  [][\A w \in Workers, d \in SideInputs, c \in SideInputs, n \in Amounts,
        nd \in TxIdPool, nc \in TxIdPool :
       createDoubleEntryTransaction(w, d, c, n, "d", nd, nc)
         => IF d = NoSide \/ c = NoSide \/ n <= 0
            THEN result'[w] = "ValidationError"
            ELSE (d.accountId \notin DOMAIN accounts
                    \/ c.accountId \notin DOMAIN accounts)
                   => result'[w] = "NotFoundError"]_vars

\* C15: a stored transaction t with a linkedTransaction u is one leg of a
\* pair: u is stored, u links back to t, both carry the same amount and
\* description, and one is the debit and the other the credit.
C15_LinkedPairsConsistent ==
  \A t \in 1..Len(txs) :
    txs[t].linkedTransaction # 0
      => LET u == txs[t].linkedTransaction
         IN /\ u \in 1..Len(txs)
            /\ txs[u].linkedTransaction = t
            /\ txs[u].amount = txs[t].amount
            /\ txs[u].description = txs[t].description
            /\ {txs[t].type, txs[u].type} = {"debit", "credit"}

\* C16: the identifier generated for a new leg never equals the identifier
\* of a stored transaction, so no creation fails on the unique index.
C16_GeneratedIdsUnique ==
  [][\A w \in Workers, data \in FullInputs, n \in TxIdPool :
       createDoubleEntry(w, data, n)
         => /\ \A i \in 1..Len(txs) : txs[i].transactionId # TxId("TX", n)
            /\ (data.amount >= 0 => result'[w] = "ok")]_vars
\* C17: no request body accepted by createAccountSchema or
\* updateAccountSchema carries a balance, so validated input cannot set or
\* overwrite an account's balance.
C17_SchemasRejectBalance ==
  (ret.done /\ ret.value.error = "none")
    => ~call.input.balance.present
\* No posting is under way: no handler holds a loaded account document.
NoPostingInFlight == \A w \in Workers : acctDoc[w] = NoAcctDoc

\* C18: with only createTransaction, approve and reject having run, every
\* entry reconcileAccounts reports has calculatedBalance equal to the stored
\* balance: difference 0 and reconciled true.
C18_ReconcileMatchesStored ==
  NoPostingInFlight
    => \A i \in 1..Len(ret.value.accounts) :
         LET e == ret.value.accounts[i]
         IN /\ e.calculatedBalance = accounts[e.accountId].balance
            /\ e.difference = 0
            /\ e.reconciled
\* C19: for an account that no stored transaction touches, reconcileAccounts
\* reports calculatedBalance 0 and reconciled true.
C19_NewAccountReconciled ==
  \A i \in 1..Len(ret.value.accounts) :
    LET e == ret.value.accounts[i]
    IN TransactionsOf(e.accountId) = <<>>
         => (e.calculatedBalance = 0 /\ e.reconciled)

\* C20: every step of reconcileAccounts leaves the accounts and the
\* transactions unchanged and raises no error; each entry it reports carries
\* the divergence as data: difference = recordedBalance - calculatedBalance
\* and reconciled exactly when the difference is 0.
C20_ReconcilePureRead ==
  [][(call' # call \/ ret' # ret)
       => /\ accounts' = accounts
          /\ txs' = txs
          /\ ret'.error = "none"
          /\ \A i \in 1..Len(ret'.value.accounts) :
               LET e == ret'.value.accounts[i]
               IN /\ e.difference = e.recordedBalance - e.calculatedBalance
                  /\ e.reconciled = (e.difference = 0)]_vars

\* A reconciliation that ran alongside a posting has returned, and an entry
\* of its report shows a divergence taken from a balance read before the
\* posting was saved.
C20_Witness ==
  /\ ret.done
  /\ ret.error = "none"
  /\ \E i \in 1..Len(ret.value.accounts) :
       LET e == ret.value.accounts[i]
       IN /\ ~e.reconciled
          /\ e.difference # 0
          /\ e.recordedBalance # accounts[e.accountId].balance
\* C21: updateBalance with amount <= 0 fails with ValidationError and changes
\* no account balance.
C21_PostingRejectsBadAmount ==
  [][\A n \in PostAmounts, op \in PostOperations :
       (n <= 0 /\ updateBalance("w1", n, op))
         => (result'["w1"] = "ValidationError" /\ accounts' = accounts)]_vars
\* The code a creation body asks for, as stored.
RequestedCode(input) == Trim(input.accountCode.value)

CodeTaken(input) ==
  \E i \in 1..Len(accounts) : accounts[i].accountCode = RequestedCode(input)

\* C22: account codes stay unique; creating an account whose code is already
\* stored fails with ConflictError and leaves the accounts unchanged, and
\* creating one whose type is not one of the five kinds fails with
\* ValidationError.
C22_UniqueAccountCodes ==
  [][\A w \in Workers, input \in ChartInputs :
       createAccount(w, input)
         => /\ \A i, j \in 1..Len(accounts') :
                 accounts'[i].accountCode = accounts'[j].accountCode => i = j
            /\ input.accountType.value \notin AccountTypes
                 => result'[w] = "ValidationError"
            /\ (input.accountType.value \in AccountTypes /\ CodeTaken(input))
                 => (result'[w] = "ConflictError" /\ accounts' = accounts)]_vars
\* C23: isAuthorized returns true exactly when the principal exists, its
\* role is one of the four roles and the permission is in that role's static
\* set; in every other case it returns false.
C23_AuthorizedIsMembership ==
  (call.fn = "isAuthorized" /\ ret.done)
    => ret.value = Returned(/\ call.user.exists
                            /\ call.user.designation \in Roles
                            /\ call.permission \in
                                 PERMISSION_MATRIX[call.user.designation])

\* Permissions whose name is a create, update or delete permission.
WritePermissions ==
  {"create_organization", "update_organization", "delete_organization",
   "create_branch", "update_branch", "delete_branch",
   "create_employee", "update_employee", "delete_employee",
   "create_vendor", "update_vendor", "delete_vendor",
   "create_transaction", "update_transaction"}

\* C24: Admin is granted every defined permission and Vendor is granted no
\* create, update or delete permission.
C24_AdminAllVendorReadOnly ==
  (call.fn = "isAuthorized" /\ ret.done /\ call.user.exists)
    => /\ (call.user.designation = "Admin" /\ call.permission \in PERMISSIONS)
            => ret.value = Returned(TRUE)
       /\ (call.user.designation = "Vendor"
             /\ call.permission \in WritePermissions)
            => ret.value = Returned(FALSE)

\* C24 witness: Admin was asked for a delete permission and Vendor for a
\* create permission, and both calls returned.
C24_Witness ==
  /\ call.fn = "isAuthorized" /\ ret.done
  /\ \/ /\ call.user.designation = "Admin"
        /\ call.permission = "delete_organization"
        /\ ret.value = Returned(TRUE)
     \/ /\ call.user.designation = "Vendor"
        /\ call.permission = "create_vendor"
        /\ ret.value = Returned(FALSE)
\* Position of a role in the hierarchy [Vendor, Employee, BranchManager,
\* Admin].
RoleIndex ==
  [r \in Roles |-> CASE r = "Vendor" -> 0 [] r = "Employee" -> 1
                     [] r = "BranchManager" -> 2 [] r = "Admin" -> 3]

\* C25: isRoleHigher(x, y) is true exactly when x and y are both roles of
\* the hierarchy and x's index is greater than y's index.
C25_RoleHigherIsIndexOrder ==
  (call.fn = "isRoleHigher" /\ ret.done)
    => (ret.value <=> /\ call.role1 \in Roles
                      /\ call.role2 \in Roles
                      /\ RoleIndex[call.role1] > RoleIndex[call.role2])

\* C25 witness: a role compared with itself was found not higher, and
\* Admin was found higher than Vendor.
C25_Witness ==
  /\ call.fn = "isRoleHigher" /\ ret.done
  /\ \/ call.role1 = "Employee" /\ call.role2 = "Employee" /\ ~ret.value
     \/ call.role1 = "Admin" /\ call.role2 = "Vendor" /\ ret.value

\* C26: isOwner is true exactly when both the principal and the resource
\* exist and the resource has a non-empty userId equal to the principal's or
\* a non-empty employeeId equal to the principal's.
C26_OwnerIsIdMatch ==
  (call.fn = "isOwner" /\ ret.done)
    => (ret.value <=>
          /\ call.user.exists
          /\ call.resource.exists
          /\ \/ /\ call.resource.userId \in {"U1", "U2"}
                /\ call.resource.userId = call.user.userId
             \/ /\ call.resource.employeeId \in {"E1", "E2"}
                /\ call.resource.employeeId = call.user.employeeId)

\* C26 witness: the principal and the resource both lack the ids (absent or
\* empty on both sides) and ownership was denied.
C26_Witness ==
  /\ call.fn = "isOwner" /\ ret.done /\ ~ret.value
  /\ call.user.exists /\ call.resource.exists
  /\ call.resource.userId = call.user.userId
  /\ call.resource.employeeId = call.user.employeeId
  /\ call.resource.userId \in {NULL, ""}
  /\ call.resource.employeeId \in {NULL, ""}

GateDenial(gate) ==
  CASE gate = "withPermission" ->
         IF /\ call.user.exists
            /\ call.user.isAuthenticated
            /\ call.permission \in PERMISSION_MATRIX[call.user.designation]
         THEN "none" ELSE "AuthorizationError"
    [] gate = "withOwnershipCheck" ->
         IF ~call.resource.exists THEN "NotFoundError"
         ELSE IF call.user.exists /\ call.resource.userId = call.user.userId
         THEN "none" ELSE "AuthorizationError"
    [] gate = "withManagementCheck" ->
         IF ~call.resource.exists THEN "NotFoundError"
         ELSE IF /\ call.user.exists
                 /\ \/ call.user.designation = "Admin"
                    \/ call.resource.manager = call.user.employeeId
         THEN "none" ELSE "AuthorizationError"

FailingGates ==
  {i \in 1..Len(call.chain) : GateDenial(call.chain[i]) # "none"}

\* C28: a wrapped resolver is called only when every gate's check passes;
\* otherwise the call ends with the classified error of the first failing
\* gate (AuthorizationError for a denial, NotFoundError for an absent
\* resource) and the resolver is not called.
C28_GatesShortCircuit ==
  (call.fn = "wrapped" /\ ret.done)
    => IF FailingGates = {}
       THEN ret.resolverCalled /\ ret.error = "none"
       ELSE LET first == CHOOSE i \in FailingGates :
                           \A j \in FailingGates : i <= j
            IN /\ ~ret.resolverCalled
               /\ ret.error = GateDenial(call.chain[first])
\* The signed amount the claim gives a transaction type.
ClaimedSign(type) ==
  CASE type \in {"debit", "purchase"} -> 1
    [] type \in {"credit", "refund"} -> 0 - 1
    [] OTHER -> 0

RECURSIVE ClaimedPrefixSum(_, _)
ClaimedPrefixSum(transactions, i) ==
  IF i = 0 THEN 0
  ELSE ClaimedPrefixSum(transactions, i - 1)
         + ClaimedSign(transactions[i].type) * transactions[i].amount

\* C29: the output of calculateRunningBalance has the length and order of
\* the input, and its i-th entry carries the sum of the signed amounts of
\* the first i transactions.
C29_RunningBalanceIsFold ==
  (call.fn = "calculateRunningBalance" /\ ret.done)
    => /\ Len(ret.value) = Len(call.transactions)
       /\ \A i \in 1..Len(ret.value) :
            /\ ret.value[i].type = call.transactions[i].type
            /\ ret.value[i].amount = call.transactions[i].amount
            /\ ret.value[i].runningBalance
                 = ClaimedPrefixSum(call.transactions, i)

\* C29 witness: a list with a transfer and a refund was folded, and the
\* running balance after the refund is negative.
C29_Witness ==
  /\ call.fn = "calculateRunningBalance" /\ ret.done
  /\ Len(ret.value) >= 2
  /\ \E i, j \in 1..Len(ret.value) :
       /\ i < j
       /\ ret.value[i].type = "transfer"
       /\ ret.value[j].type = "refund"
       /\ ret.value[j].runningBalance < 0
RECURSIVE SumAmounts(_)
SumAmounts(transactions) ==
  IF transactions = <<>> THEN 0
  ELSE Head(transactions).amount + SumAmounts(Tail(transactions))

Occurrences(transactions, t) ==
  Cardinality({i \in 1..Len(transactions) : transactions[i] = t})

RECURSIVE BucketOccurrences(_, _)
BucketOccurrences(buckets, t) ==
  IF buckets = <<>> THEN 0
  ELSE Occurrences(Head(buckets).transactions, t)
         + BucketOccurrences(Tail(buckets), t)

\* Two transactions of the same period: the same UTC calendar date (day),
\* the same Sunday-based week of the process's calendar (week), the same
\* month of the process's calendar (month).
SamePeriod(a, b, period, timezone) ==
  LET dayA == LocalDay(a.createdAt, timezone)
      dayB == LocalDay(b.createdAt, timezone)
  IN CASE period = "week" -> dayA - (dayA % 7) = dayB - (dayB % 7)
       [] period = "month" -> CalendarDate(dayA).month = CalendarDate(dayB).month
       [] OTHER -> a.createdAt \div 24 = b.createdAt \div 24

\* C30: the buckets of aggregateByPeriod partition the input, transactions
\* of the same day, week or month share a bucket, each bucket's count and
\* totalAmount are the number and the sum of its transactions, and the
\* buckets are in ascending order of their key.
C30_AggregatePartitions ==
  (call.fn = "aggregateByPeriod" /\ ret.done)
    => LET buckets == ret.value
       IN /\ \A t \in DatedTransactions :
               BucketOccurrences(buckets, t) = Occurrences(call.transactions, t)
          /\ \A i \in 1..Len(buckets) :
               /\ buckets[i].count = Len(buckets[i].transactions)
               /\ buckets[i].totalAmount = SumAmounts(buckets[i].transactions)
          /\ \A i, j \in 1..Len(buckets) :
               i < j => DateParse(buckets[i].date) < DateParse(buckets[j].date)
          /\ \A i, j \in 1..Len(buckets) :
               i # j =>
                 \A m \in 1..Len(buckets[i].transactions),
                    n \in 1..Len(buckets[j].transactions) :
                   ~SamePeriod(buckets[i].transactions[m],
                               buckets[j].transactions[n],
                               call.period, call.timezone)

\* Sum of the stored balances of the accounts of one type that belong to
\* the organization.
RECURSIVE SumOver(_)
SumOver(S) ==
  IF S = {} THEN 0
  ELSE LET a == CHOOSE x \in S : TRUE
       IN accounts[a].balance + SumOver(S \ {a})

OrgTotal(accountType, orgId) ==
  SumOver({a \in DOMAIN accounts :
             /\ accounts[a].accountType = accountType
             /\ accounts[a].entity = Entity("organization", orgId)})

\* C31: each total generateBalanceSheet reports is the sum of the stored
\* balances of the organization's accounts of that type at the moment they
\* are read (accounts of other entities contribute nothing); the sheet's
\* balance flag is true exactly when assets.total = liabilities.total +
\* equity.total; no step of it changes an account.
C31_BalanceSheetTotals ==
  [][/\ (generateBalanceSheetAssets /\ call'.pc = "liabilities")
          => /\ call'.assets.total = OrgTotal("asset", call.orgId)
             /\ accounts' = accounts
     /\ generateBalanceSheetLiabilities
          => /\ call'.liabilities.total = OrgTotal("liability", call.orgId)
             /\ accounts' = accounts
     /\ generateBalanceSheetEquity
          => /\ ret'.value.equity.total = OrgTotal("equity", call.orgId)
             /\ ret'.value.assets = call.assets
             /\ ret'.value.liabilities = call.liabilities
             /\ ret'.value.balance
                  = (ret'.value.assets.total
                       = ret'.value.liabilities.total + ret'.value.equity.total)
             /\ accounts' = accounts]_vars

\* The scenario of the ledger queries: a sheet was returned that is balanced
\* with a non-zero asset total funded by equity, while an account of another
\* entity holds a balance that the sheet leaves out.
C31_Witness ==
  /\ ret.done
  /\ ret.error = "none"
  /\ ret.value.balance
  /\ ret.value.assets.total > 0
  /\ ret.value.assets.total = ret.value.equity.total
  /\ ret.value.liabilities.total = 0
  /\ \E a \in DOMAIN accounts :
       /\ accounts[a].accountType \in {"asset", "liability", "equity"}
       /\ accounts[a].entity # Entity("organization", call.orgId)
       /\ accounts[a].balance > 0

\* The header is exactly the word Bearer, one space and a non-empty token
\* without a space.
WellFormedBearer(authHeader) ==
  /\ authHeader.present
  /\ Len(authHeader.value) >= 3
  /\ authHeader.value[1] = "Bearer"
  /\ authHeader.value[2] = " "
  /\ \A i \in 3..Len(authHeader.value) : authHeader.value[i] # " "

\* C34: extractTokenFromHeader returns the token when the header is the
\* word Bearer, one space and a non-empty token, and returns null for every
\* other header.
C34_ExtractBearerToken ==
  ret.done
    => IF WellFormedBearer(call.authHeader)
       THEN ret.value = Present(SubSeq(call.authHeader.value, 3,
                                       Len(call.authHeader.value)))
       ELSE ret.value = NoString

\* The authorization header a middleware reads from a request, given the
\* spelling it prefers; absent when the request or its headers are missing.
HeaderOf(req, lowerFirst) ==
  IF ~req.exists \/ ~req.headers THEN NoString
  ELSE IF lowerFirst
  THEN (IF TruthyString(req.authorization) THEN req.authorization
        ELSE req.Authorization)
  ELSE (IF TruthyString(req.Authorization) THEN req.Authorization
        ELSE req.authorization)

\* The header carries a token that verifies, and the user it is signed for.
ValidBearer(header) ==
  header \in {Present(<<"Bearer", " ", "tA">>), Present(<<"Bearer", " ", "tV">>)}
SignedUser(header) ==
  IF header = Present(<<"Bearer", " ", "tA">>)
  THEN [userId |-> "U1", employeeId |-> "E1", designation |-> "Admin"]
  ELSE [userId |-> "U2", employeeId |-> "E2", designation |-> "Vendor"]

\* The header provides no token: it is absent, empty, or not of the form
\* Bearer, space, non-empty token.
NoTokenProvided(header) == ~WellFormedBearer(header)

SameUser(user, payload) ==
  /\ user.exists
  /\ user.userId = payload.userId
  /\ user.employeeId = payload.employeeId
  /\ user.designation = payload.designation

\* C32: authenticate calls next once and sets req.user to the decoded
\* { userId, employeeId, designation } when the token is valid and never
\* calls next otherwise; without a token it throws AuthenticationError
\* 'No token provided', with an invalid or expired token it throws
\* AuthenticationError 'Invalid or expired token'.
C32_AuthenticateOutcomes ==
  (ret.done /\ call.fn = "authenticate")
    => LET header == HeaderOf(call.req, TRUE)
           o == ret.outcome
       IN IF ValidBearer(header)
          THEN /\ o.error = "none"
               /\ o.nextCalls = 1
               /\ SameUser(o.user, SignedUser(header))
          ELSE /\ o.nextCalls = 0
               /\ o.error = "AuthenticationError"
               /\ o.message = IF NoTokenProvided(header)
                              THEN "No token provided"
                              ELSE "Invalid or expired token"

\* C33: optionalAuth never throws, calls next exactly once and sets req.user
\* only for a valid token; buildAuthContext never throws and returns
\* { user: null, isAuthenticated: false } unless the token is valid, in which
\* case it returns the decoded user with isAuthenticated = true.
C33_OptionalAuthNeverThrows ==
  /\ (ret.done /\ call.fn = "optionalAuth")
       => LET header == HeaderOf(call.req, TRUE)
              o == ret.outcome
          IN /\ o.error = "none"
             /\ o.nextCalls = 1
             /\ IF ValidBearer(header)
                THEN SameUser(o.user, SignedUser(header))
                ELSE ~o.user.exists
  /\ (ret.done /\ call.fn = "buildAuthContext")
       => LET header == HeaderOf(call.req, FALSE)
              context == ret.value.value
          IN /\ ret.value.error = "none"
             /\ IF ValidBearer(header)
                THEN /\ context.isAuthenticated
                     /\ SameUser(context.user, SignedUser(header))
                ELSE /\ ~context.isAuthenticated
                     /\ ~context.user.exists

\* optionalAuth has gone on without a user for a request whose token has
\* expired.
C33_Witness ==
  /\ ret.done
  /\ call.fn = "optionalAuth"
  /\ HeaderOf(call.req, TRUE) = Present(<<"Bearer", " ", "tX">>)
  /\ ret.outcome.nextCalls = 1
  /\ ~ret.outcome.user.exists

\* C35: no error escapes a function wrapped by asyncHandler: when the
\* wrapped function rejects or throws synchronously, the wrapper calls next
\* exactly once with that error; when it succeeds, the wrapper does not call
\* next.
C35_AsyncHandlerCatches ==
  /\ ret.escaped = "none"
  /\ ret.done
       => IF call.wrapped.kind \in {"reject", "throw"}
          THEN ret.nextCalls = <<call.wrapped.error>>
          ELSE ret.nextCalls = <<>>

\* (assets + expenses) - (liabilities + equity + revenue) over the stored
\* balances in the chart of accounts `stored`.
RECURSIVE EquationOver(_, _)
EquationOver(stored, S) ==
  IF S = {} THEN 0
  ELSE LET a == CHOOSE x \in S : TRUE
           side == IF stored[a].accountType \in {"asset", "expense"}
                   THEN stored[a].balance ELSE 0 - stored[a].balance
       IN side + EquationOver(stored, S \ {a})

\* C36: posting both sides of an approved transaction (debit of n to its
\* debit account, credit of n to its credit account) leaves (assets +
\* expenses) - (liabilities + equity + revenue) unchanged, for every
\* combination of account types.
C36_EquationPreserved ==
  [][EquationOver(accounts', AccountIds) = EquationOver(accounts, AccountIds)]_vars

\* Postings between an asset account and a revenue account have changed the
\* balance of both.
C36_Witness ==
  /\ accounts["A1"].accountType = "asset"
  /\ accounts["A2"].accountType = "revenue"
  /\ posted["A1"] > 0
  /\ posted["A2"] > 0

\* Stored transactions t and u are the two legs of a linked pair.
LinkedPair(t, u) ==
  /\ t \in 1..Len(txs)
  /\ u \in 1..Len(txs)
  /\ t # u
  /\ txs[t].linkedTransaction = u
  /\ txs[u].linkedTransaction = t

\* C37: no linked pair has one leg approved and the other rejected, and once
\* both legs are approved the pair's debit account has been debited exactly n
\* in total and its credit account credited exactly n in total.
C37_PairDecidedAsUnit ==
  \A t, u \in 1..Len(txs) :
    LinkedPair(t, u)
      => /\ ~(txs[t].status = "approved" /\ txs[u].status = "rejected")
         /\ (txs[t].status = "approved" /\ txs[u].status = "approved")
              => LET d == txs[t].debitAccount.accountId
                     c == txs[t].creditAccount.accountId
                     n == txs[t].amount
                 IN /\ accounts[d].balance
                         = BalanceDelta(accounts[d].accountType, n, "debit")
                    /\ accounts[c].balance
                         = BalanceDelta(accounts[c].accountType, n, "credit")

\* C38: a stored transaction has an approver exactly when its status is
\* approved or rejected; a rejected transaction carries a rejection reason
\* in its metadata and an approved one carries none.
C38_ApproverIffDecided ==
  \A t \in 1..Len(txs) :
    /\ (txs[t].approvedBy # NULL) = Decided(txs[t].status)
    /\ txs[t].status = "rejected" => txs[t].metadata.rejectionReason # NULL
    /\ txs[t].status = "approved" => txs[t].metadata.rejectionReason = NULL

\* C39: with the context built by buildAuthContext, a request carrying a
\* valid access token of a user whose role holds the permission reaches the
\* resolver wrapped with withPermission: the authentication check of
\* withPermission accepts the contexts buildAuthContext marks authenticated.
C39_AuthenticatedReachesResolver ==
  (ret.done /\ call.fn = "wrapped" /\ call.event.exists)
    => LET header == HeaderOf(call.event, FALSE)
       IN (/\ ValidBearer(header)
           /\ call.context.isAuthenticated
           /\ call.permission
                \in PERMISSION_MATRIX[SignedUser(header).designation])
            => ret.resolverCalled

\* C40: a creation of a linked pair that fails, at whatever step, leaves the
\* stored transactions as they were: no leg of the pair is stored and no
\* link of an existing transaction has changed.
C40_PairCreationAllOrNothing ==
  [][result'["w1"] # "ok" => txs' = txs]_vars

====
